---- MODULE Spec2Model ----
(***************************************************************************)
(* Token lifecycle of the ONLYOFFICE Google Drive connector: the user      *)
(* token service (create / get / update / delete over a Store, a Cache and *)
(* an Encryptor), the two Store variants, and the RPC Select handler that  *)
(* refreshes an expiring token behind a single-flight group.               *)
(*                                                                         *)
(* Strings are sequences of one-character strings, so that trimming,       *)
(* formatting and parsing are computed and not assumed.  Time is counted   *)
(* in whole minutes since the epoch; durations handed to the cache are in  *)
(* milliseconds.                                                           *)
(***************************************************************************)
EXTENDS Integers, Sequences, FiniteSets, TLC

(***************************************************************************)
(* Bounds of the model.                                                    *)
(***************************************************************************)
\* first instant of the clock, in minutes since the epoch
T0 == 6
\* number of clock ticks a behaviour may take
MaxTicks == 2

(***************************************************************************)
(* Strings.                                                                *)
(***************************************************************************)
Space == " "
Blank == << >>

RECURSIVE TrimLeft(_)
TrimLeft(s) ==
    IF s # << >> /\ Head(s) = Space THEN TrimLeft(Tail(s)) ELSE s

RECURSIVE TrimRight(_)
TrimRight(s) ==
    IF s # << >> /\ s[Len(s)] = Space
    THEN TrimRight(SubSeq(s, 1, Len(s) - 1))
    ELSE s

\* strings.TrimSpace
TrimSpace(s) == TrimRight(TrimLeft(s))

Digits == <<"0", "1", "2", "3", "4", "5", "6", "7", "8", "9">>

DigitChar(d) == Digits[d + 1]

IsDigit(c) == \E d \in 0..9 : Digits[d + 1] = c

DigitVal(c) == CHOOSE d \in 0..9 : Digits[d + 1] = c

\* integer division as Go computes it: truncated toward zero
GoDiv(a, b) == IF a >= 0 THEN a \div b ELSE -((-a) \div b)

(***************************************************************************)
(* time.Time.Format(time.RFC3339) and time.Parse(time.RFC3339, s): the     *)
(* textual form of an instant is its decimal numeral; parsing fails on the *)
(* empty string and on any character that is not a digit.                  *)
(***************************************************************************)
RECURSIVE FormatRFC3339(_)
FormatRFC3339(t) ==
    IF t < 10 THEN <<DigitChar(t)>>
    ELSE Append(FormatRFC3339(t \div 10), DigitChar(t % 10))

RECURSIVE ParseDigits(_, _)
ParseDigits(s, acc) ==
    IF s = << >> THEN acc
    ELSE ParseDigits(Tail(s), acc * 10 + DigitVal(Head(s)))

ParseRFC3339(s) ==
    IF s # << >> /\ \A i \in 1..Len(s) : IsDigit(s[i])
    THEN [ok |-> TRUE, t |-> ParseDigits(s, 0)]
    ELSE [ok |-> FALSE, t |-> 0]

MsPerMinute == 60000

\* time.Time.UnixMilli
UnixMilli(t) == t * MsPerMinute

(***************************************************************************)
(* Errors.                                                                 *)
(***************************************************************************)
Nil == "nil"
ErrValidation == "InvalidModelFieldError"
ErrInvalidParameter == "InvalidServiceParameterError"
ErrOperationTimeout == "ErrOperationTimeout"
ErrNotFound == "user with this id doesn't exist"
ErrInvalidUserId == "ErrInvalidUserId"
ErrStore == "store error"
ErrCache == "cache error"
ErrKeyNotFound == "ErrKeyNotFound"
ErrItemExpired == "ErrItemExpired"
ErrEncrypt == "encrypt error"
ErrBase64 == "illegal base64 data"
ErrInvalidNonceSize == "invalid nonce size"
ErrParse == "parsing time"
ErrProvider == "oauth2: cannot fetch token"
\* not a Go error: the call never returned
Blocked == "blocked"

(***************************************************************************)
(* domain.UserAccess                                                       *)
(***************************************************************************)
UserAccess(id, at, rt, tt, sc, ex) ==
    [ID |-> id, AccessToken |-> at, RefreshToken |-> rt,
     TokenType |-> tt, Scope |-> sc, Expiry |-> ex]

\* the zero value domain.UserAccess{}
EmptyUser == UserAccess(Blank, Blank, Blank, Blank, Blank, Blank)

\* the in-place trimming Validate performs through its pointer receiver
Trimmed(u) ==
    UserAccess(TrimSpace(u.ID), TrimSpace(u.AccessToken),
               TrimSpace(u.RefreshToken), TrimSpace(u.TokenType),
               TrimSpace(u.Scope), TrimSpace(u.Expiry))

\* Validate with one check lost: the scope is not examined
ValidateNoScope(u) ==
    LET t == Trimmed(u) IN
    IF t.ID = Blank \/ t.AccessToken = Blank \/ t.RefreshToken = Blank
       \/ t.TokenType = Blank \/ t.Expiry = Blank
    THEN ErrValidation ELSE Nil

\* UserAccess.Validate: the error it returns
Validate(u) ==
    LET t == Trimmed(u) IN
    IF t.ID = Blank THEN ErrValidation
    ELSE IF t.AccessToken = Blank THEN ErrValidation
    ELSE IF t.RefreshToken = Blank THEN ErrValidation
    ELSE IF t.TokenType = Blank THEN ErrValidation
    ELSE IF t.Scope = Blank THEN ErrValidation
    ELSE IF t.Expiry = Blank THEN ErrValidation
    ELSE Nil

(***************************************************************************)
(* crypto: aesEncryptor.  A ciphertext is the base64 mark "#", the nonce,  *)
(* and the sealed text: the key (standing for the authentication tag that  *)
(* only this key produces) followed by the plaintext.                      *)
(***************************************************************************)
\* oauth2.Config.ClientSecret, the key of every encryption of the service
ClientSecret == "k"

\* gcm.NonceSize(), in characters of the model's strings
NonceSize == 1

\* what the random source delivers for a nonce; no decision of the service
\* reads a nonce, and one value stands for all of them
Nonces == {"n"}

Base64Mark == "#"

\* an encryptor that hands the text back as it is
EncryptPlain(text, key, nonce, fail) ==
    IF fail THEN [val |-> Blank, err |-> ErrEncrypt]
    ELSE [val |-> text, err |-> Nil]

\* aesEncryptor.Encrypt; fail: the random source could not be read
Encrypt(text, key, nonce, fail) ==
    IF fail THEN [val |-> Blank, err |-> ErrEncrypt]
    ELSE [val |-> <<Base64Mark, nonce, key>> \o text, err |-> Nil]

\* gcm.Open: the plaintext, or nothing when the tag does not verify
Open(ciphertext, key) ==
    IF ciphertext # << >> /\ Head(ciphertext) = key
    THEN Tail(ciphertext) ELSE Blank

\* a Decrypt that reports the error of gcm.Open
DecryptChecked(text, key) ==
    IF text # << >> /\ Head(text) # Base64Mark
    THEN [val |-> Blank, err |-> ErrBase64]
    ELSE LET buf == IF text = << >> THEN << >> ELSE Tail(text) IN
         IF Len(buf) < NonceSize
         THEN [val |-> Blank, err |-> ErrInvalidNonceSize]
         ELSE IF Len(buf) = NonceSize \/ buf[NonceSize + 1] # key
         THEN [val |-> Blank, err |-> "cipher: message authentication failed"]
         ELSE [val |-> Open(SubSeq(buf, NonceSize + 1, Len(buf)), key),
               err |-> Nil]

\* aesEncryptor.Decrypt
Decrypt(text, key) ==
    IF text # << >> /\ Head(text) # Base64Mark
    THEN [val |-> Blank, err |-> ErrBase64]
    ELSE LET buf == IF text = << >> THEN << >> ELSE Tail(text) IN
         IF Len(buf) < NonceSize
         THEN [val |-> Blank, err |-> ErrInvalidNonceSize]
         ELSE [val |-> Open(SubSeq(buf, NonceSize + 1, Len(buf)), key),
               err |-> Nil]

(***************************************************************************)
(* Maps (Go maps, cache stores): functions whose domain is the key set.    *)
(***************************************************************************)
EmptyMap == << >>

MapPut(m, k, v) == [x \in DOMAIN m \cup {k} |-> IF x = k THEN v ELSE m[x]]

MapDel(m, k) == [x \in DOMAIN m \ {k} |-> m[x]]

(***************************************************************************)
(* cache.CustomCache over a store with expiration.  An entry is the value  *)
(* and the instant (ms) at which the store stops returning it; 0: never.   *)
(* fail: the cache backend refuses the call.                               *)
(***************************************************************************)
\* CustomCache.Get
CacheGet(c, t, key, fail) ==
    IF fail THEN [hit |-> FALSE, val |-> EmptyUser, err |-> ErrCache]
    ELSE IF key \notin DOMAIN c
    THEN [hit |-> FALSE, val |-> EmptyUser, err |-> ErrKeyNotFound]
    ELSE IF c[key].exp # 0 /\ UnixMilli(t) >= c[key].exp
    THEN [hit |-> FALSE, val |-> EmptyUser, err |-> ErrItemExpired]
    ELSE [hit |-> TRUE, val |-> c[key].val, err |-> Nil]

\* CustomCache.Put with store.WithExpiration(d), d in milliseconds
CachePut(c, t, key, val, d, fail) ==
    IF fail THEN [cache |-> c, err |-> ErrCache]
    ELSE [cache |-> MapPut(c, key, [val |-> val,
                      exp |-> IF d > 0 THEN UnixMilli(t) + d ELSE 0]),
          err |-> Nil]

\* a Delete that answers as CustomCache.Delete does and removes nothing
CacheDeleteKeeps(c, key, fail) ==
    IF fail THEN [cache |-> c, err |-> ErrCache]
    ELSE IF key \notin DOMAIN c THEN [cache |-> c, err |-> ErrKeyNotFound]
    ELSE [cache |-> c, err |-> Nil]

\* CustomCache.Delete
CacheDelete(c, key, fail) ==
    IF fail THEN [cache |-> c, err |-> ErrCache]
    ELSE IF key \notin DOMAIN c THEN [cache |-> c, err |-> ErrKeyNotFound]
    ELSE [cache |-> MapDel(c, key), err |-> Nil]

\* mapstructure.Decode of a cached value into a UserAccess, field by field
Decode(v) ==
    UserAccess(v.ID, v.AccessToken, v.RefreshToken, v.TokenType, v.Scope,
               v.Expiry)

(***************************************************************************)
(* Store, in-memory variant: memoryUserAdapter over kvs, a map from the    *)
(* user id to the JSON of the record.  It takes no notice of the context.  *)
(***************************************************************************)
\* json.Marshal / json.Unmarshal of a UserAccess: one member per field
ToJSON(u) ==
    [id |-> u.ID, access_token |-> u.AccessToken,
     refresh_token |-> u.RefreshToken, token_type |-> u.TokenType,
     scope |-> u.Scope, expiry |-> u.Expiry]

FromJSON(j) ==
    UserAccess(j.id, j.access_token, j.refresh_token, j.token_type, j.scope,
               j.expiry)

\* memoryUserAdapter.save
MemSave(kvs, user) == [kvs |-> MapPut(kvs, user.ID, ToJSON(user)), err |-> Nil]

\* memoryUserAdapter.SelectUserByID
MemSelect(kvs, uid) ==
    IF uid \notin DOMAIN kvs THEN [user |-> EmptyUser, err |-> ErrNotFound]
    ELSE [user |-> FromJSON(kvs[uid]), err |-> Nil]

\* memoryUserAdapter.DeleteUserByID
MemDelete(kvs, uid) ==
    IF uid \notin DOMAIN kvs THEN [kvs |-> kvs, err |-> ErrNotFound]
    ELSE [kvs |-> MapDel(kvs, uid), err |-> Nil]

(***************************************************************************)
(* Store, document-store variant: mongoUserAdapter over coll, the sequence *)
(* of documents of the collection.  down: the database call fails (the     *)
(* context has expired, or the server cannot be reached).                  *)
(***************************************************************************)
ErrNoDocuments == "mongo: no documents in result"

Matching(coll, uid) == {i \in 1..Len(coll) : coll[i].UID = uid}

\* Collection.First: the index of the first document with this uid, or 0
First(coll, uid) ==
    IF Matching(coll, uid) = {} THEN 0
    ELSE CHOOSE i \in Matching(coll, uid) :
             \A j \in Matching(coll, uid) : i <= j

NewDoc(user) ==
    [UID |-> user.ID, AccessToken |-> user.AccessToken,
     RefreshToken |-> user.RefreshToken, TokenType |-> user.TokenType,
     Scope |-> user.Scope, Expiry |-> user.Expiry]

DocUser(d) ==
    UserAccess(d.UID, d.AccessToken, d.RefreshToken, d.TokenType, d.Scope,
               d.Expiry)

\* a save that creates a document whatever the collection holds
MongoSaveAppend(coll, user, down) ==
    IF down THEN [coll |-> coll, err |-> ErrStore]
    ELSE [coll |-> Append(coll, NewDoc(user)), err |-> Nil]

\* mongoUserAdapter.save, one transaction
MongoSave(coll, user, down) ==
    IF down THEN [coll |-> coll, err |-> ErrStore]
    ELSE LET i == First(coll, user.ID) IN
         IF i = 0 THEN [coll |-> Append(coll, NewDoc(user)), err |-> Nil]
         ELSE [coll |-> [coll EXCEPT ![i] = NewDoc(user)], err |-> Nil]

\* mongoUserAdapter.InsertUser and UpsertUser: validate, then save
MongoWrite(coll, user, down) ==
    IF Validate(user) # Nil THEN [coll |-> coll, err |-> Validate(user)]
    ELSE MongoSave(coll, Trimmed(user), down)

\* mongoUserAdapter.SelectUserByID
MongoSelect(coll, uid, down) ==
    LET id == TrimSpace(uid) IN
    IF id = Blank THEN [user |-> EmptyUser, err |-> ErrInvalidUserId]
    ELSE IF down THEN [user |-> EmptyUser, err |-> ErrStore]
    ELSE IF First(coll, id) = 0
    THEN [user |-> EmptyUser, err |-> ErrNoDocuments]
    ELSE [user |-> DocUser(coll[First(coll, id)]), err |-> Nil]

\* mongoUserAdapter.DeleteUserByID: DeleteMany of the trimmed uid
MongoDelete(coll, uid, down) ==
    LET id == TrimSpace(uid) IN
    IF id = Blank THEN [coll |-> coll, err |-> ErrInvalidUserId]
    ELSE IF down THEN [coll |-> coll, err |-> ErrStore]
    ELSE [coll |-> SelectSeq(coll, LAMBDA d : d.UID # id), err |-> Nil]

(***************************************************************************)
(* The Store as the service sees it: one of the two variants.  A store     *)
(* state is [variant, kvs, coll].  ctxDone: the context handed down has    *)
(* expired; down: the database is unreachable.                             *)
(***************************************************************************)
Memory == "memory"
Mongo == "mongo"

\* port.UserAccessServiceAdapter.InsertUser
AdapterInsert(st, user, ctxDone, down) ==
    IF st.variant = Memory
    THEN [st |-> [st EXCEPT !.kvs = MemSave(st.kvs, user).kvs], err |-> Nil]
    ELSE LET w == MongoWrite(st.coll, user, ctxDone \/ down) IN
         [st |-> [st EXCEPT !.coll = w.coll], err |-> w.err]

\* port.UserAccessServiceAdapter.UpsertUser
AdapterUpsert(st, user, ctxDone, down) == AdapterInsert(st, user, ctxDone, down)

\* port.UserAccessServiceAdapter.SelectUserByID
AdapterSelect(st, uid, ctxDone, down) ==
    IF st.variant = Memory THEN MemSelect(st.kvs, uid)
    ELSE MongoSelect(st.coll, uid, ctxDone \/ down)

\* port.UserAccessServiceAdapter.DeleteUserByID
AdapterDelete(st, uid, ctxDone, down) ==
    IF st.variant = Memory
    THEN LET d == MemDelete(st.kvs, uid) IN
         [st |-> [st EXCEPT !.kvs = d.kvs], err |-> d.err]
    ELSE LET d == MongoDelete(st.coll, uid, ctxDone \/ down) IN
         [st |-> [st EXCEPT !.coll = d.coll], err |-> d.err]

\* the record the Store holds for a trimmed id, as SelectUserByID reads it
Stored(st, id) == AdapterSelect(st, id, FALSE, FALSE)

(***************************************************************************)
(* Fan-out of a service call: two goroutines deliver a token or an error,  *)
(* the caller then polls  select { <-errChan; <-ctx.Done(); default }.     *)
(* errs: the errors the two goroutines end with; waits: the caller passes  *)
(* wg.Wait() before polling.  The result is the set of outcomes of the     *)
(* poll and the two receives that follow it: "go" (both tokens received),  *)
(* an error returned, or Blocked (a receive whose sender ended without     *)
(* sending).  FanStep* of the step-by-step model reach exactly this set.   *)
(***************************************************************************)
Go == "go"

FanOutcomes(errs, ctxDone, waits) ==
    LET seen == IF waits THEN {errs} ELSE SUBSET errs
        \* what the poll can return for the errors already sent
        poll(vis) == vis \cup (IF ctxDone THEN {ErrOperationTimeout} ELSE {})
                     \cup (IF vis = {} /\ ~ctxDone
                           THEN (IF errs = {} THEN {Go} ELSE {Blocked})
                           ELSE {})
    IN  UNION {poll(vis) : vis \in seen}

\* the duration GetUser and UpdateUser hand to Cache.Put, in milliseconds:
\* time.Duration((exp.UnixMilli()-10)*1e6/6) nanoseconds
CacheTTL(exp) == GoDiv(UnixMilli(exp) - 10, 6)

(***************************************************************************)
(* userService.  w is the world a call runs in: [st, cache, now].  f is    *)
(* the set of faults of the call's environment (FaultNames).  Each         *)
(* operation yields the set of its possible results                        *)
(* [st, cache, res, err]: the outcome of the fan-out poll is a choice.     *)
(***************************************************************************)
FCtx == "ctx done"
FEncA == "encrypt access fails"
FEncB == "encrypt refresh fails"
FCacheGet == "cache get fails"
FCachePut == "cache put fails"
FCacheDel == "cache delete fails"
FDown == "store down"

FaultNames == {FCtx, FEncA, FEncB, FCacheGet, FCachePut, FCacheDel, FDown}

Result(st, cache, res, err) == [st |-> st, cache |-> cache, res |-> res, err |-> err]

\* the errors the two encrypting goroutines end with
EncErrs(f) == (IF FEncA \in f THEN {ErrEncrypt} ELSE {})
              \cup (IF FEncB \in f THEN {ErrEncrypt} ELSE {})

\* userService.CreateUser; res is not used (the call returns an error only)
CreateUser(w, user, f) ==
    IF Validate(user) # Nil
    THEN {Result(w.st, w.cache, EmptyUser, Validate(user))}
    ELSE LET u == Trimmed(user) IN
      UNION {
        IF o # Go THEN {Result(w.st, w.cache, EmptyUser, o)}
        ELSE { LET ins == AdapterInsert(w.st,
                            UserAccess(u.ID,
                                Encrypt(u.AccessToken, ClientSecret, na, FALSE).val,
                                Encrypt(u.RefreshToken, ClientSecret, nr, FALSE).val,
                                u.TokenType, u.Scope, u.Expiry),
                            FCtx \in f, FDown \in f)
               IN Result(ins.st, w.cache, EmptyUser, ins.err)
               : na \in Nonces, nr \in Nonces }
        : o \in FanOutcomes(EncErrs(f), FCtx \in f, TRUE) }

\* userService.GetUser
GetUser(w, uid, f) ==
    LET id == TrimSpace(uid) IN
    IF id = Blank THEN {Result(w.st, w.cache, EmptyUser, ErrInvalidParameter)}
    ELSE
      LET g == CacheGet(w.cache, w.now, id, FCacheGet \in f)
          cached == IF g.err = Nil /\ g.hit THEN Decode(g.val) ELSE EmptyUser
      IN
      IF Validate(cached) # Nil /\ AdapterSelect(w.st, id, FCtx \in f, FDown \in f).err # Nil
      THEN LET sel == AdapterSelect(w.st, id, FCtx \in f, FDown \in f)
           IN {Result(w.st, w.cache, sel.user, sel.err)}
      ELSE IF Validate(cached) # Nil
              /\ ~ParseRFC3339(AdapterSelect(w.st, id, FCtx \in f, FDown \in f).user.Expiry).ok
      THEN {Result(w.st, w.cache,
                   AdapterSelect(w.st, id, FCtx \in f, FDown \in f).user, ErrParse)}
      ELSE
        LET miss == Validate(cached) # Nil
            user == IF miss
                    THEN AdapterSelect(w.st, id, FCtx \in f, FDown \in f).user
                    ELSE Trimmed(cached)
            put == IF miss
                   THEN CachePut(w.cache, w.now, id, user,
                                 CacheTTL(ParseRFC3339(user.Expiry).t),
                                 FCachePut \in f).cache
                   ELSE w.cache
            a == Decrypt(user.AccessToken, ClientSecret)
            r == Decrypt(user.RefreshToken, ClientSecret)
            errs == {e \in {a.err, r.err} : e # Nil}
        IN { IF o # Go THEN Result(w.st, put, EmptyUser, o)
             ELSE Result(w.st, put,
                         UserAccess(user.ID, a.val, r.val, user.TokenType,
                                    user.Scope, user.Expiry), Nil)
             : o \in FanOutcomes(errs, FCtx \in f, TRUE) }

\* userService.UpdateUser
UpdateUser(w, user, f) ==
    IF Validate(user) # Nil
    THEN {Result(w.st, w.cache, EmptyUser, Validate(user))}
    ELSE LET u == Trimmed(user) IN
      UNION {
        IF o # Go THEN {Result(w.st, w.cache, u, o)}
        ELSE IF ~ParseRFC3339(u.Expiry).ok
        THEN {Result(w.st, w.cache, u, ErrParse)}
        ELSE { LET euser == UserAccess(u.ID,
                                Encrypt(u.AccessToken, ClientSecret, na, FALSE).val,
                                Encrypt(u.RefreshToken, ClientSecret, nr, FALSE).val,
                                u.TokenType, u.Scope, u.Expiry)
                   put == CachePut(w.cache, w.now, euser.ID, euser,
                                   CacheTTL(ParseRFC3339(u.Expiry).t),
                                   FCachePut \in f)
                   cache1 == IF put.err = Nil THEN put.cache
                             ELSE CacheDelete(w.cache, euser.ID,
                                              FCacheDel \in f).cache
                   ups == AdapterUpsert(w.st, euser, FCtx \in f, FDown \in f)
               IN Result(ups.st, cache1, u, ups.err)
               : na \in Nonces, nr \in Nonces }
        : o \in FanOutcomes(EncErrs(f), FCtx \in f, FALSE) }

\* userService.DeleteUser
DeleteUser(w, uid, f) ==
    LET id == TrimSpace(uid) IN
    IF id = Blank THEN {Result(w.st, w.cache, EmptyUser, ErrInvalidParameter)}
    ELSE
      LET g == CacheGet(w.cache, w.now, uid, FCacheGet \in f)
          d == CacheDelete(w.cache, uid, FCacheDel \in f)
      IN
      IF g.err = Nil /\ d.err # Nil
      THEN {Result(w.st, w.cache, EmptyUser, d.err)}
      ELSE LET cache1 == IF g.err = Nil THEN d.cache ELSE w.cache
               del == AdapterDelete(w.st, uid, FCtx \in f, FDown \in f)
           IN {Result(del.st, cache1, EmptyUser, del.err)}

(***************************************************************************)
(* handler.UserSelectHandler.GetUser.  The closure handed to group.Do      *)
(* fetches the user, decides on a refresh, asks the OAuth provider and     *)
(* persists the new token; the handler then turns the shared (value, err)  *)
(* into its own return.                                                    *)
(***************************************************************************)
\* the interface{} value the closure returns: nil, or a domain.UserAccess
NilValue == [isUser |-> FALSE, user |-> EmptyUser]
UserValue(u) == [isUser |-> TRUE, user |-> u]

\* the handler refreshes a token this many minutes before its expiry:
\* t.Add(-2 * time.Minute)
RefreshMargin == 2

\* refresh at the boundary too: t.Before(now) read as "not after"
NeedsRefreshAtBoundary(exp, t) == exp - RefreshMargin <= t

\* t = expiry - 2 minutes; t.Before(time.Now())
NeedsRefresh(exp, t) == exp - RefreshMargin < t

\* how long a token the provider mints stays valid, in minutes
TokenLife == 60

\* the answers of the OAuth provider to a refresh: a rejection, a new access
\* token, a new access token and a rotated refresh token
ProviderAnswers ==
    {[ok |-> FALSE, access |-> Blank, refresh |-> Blank],
     [ok |-> TRUE, access |-> <<"N">>, refresh |-> Blank],
     [ok |-> TRUE, access |-> <<"N">>, refresh |-> <<"S">>]}

\* oauth2 TokenSource.Token() for a token forced to be expired: it fails
\* when there is no refresh token or the provider rejects; a refresh token
\* the provider does not rotate is kept
ProviderToken(user, ans, t) ==
    IF user.RefreshToken = Blank \/ ~ans.ok
    THEN [err |-> ErrProvider, AccessToken |-> Blank, RefreshToken |-> Blank,
          Expiry |-> 0]
    ELSE [err |-> Nil, AccessToken |-> ans.access,
          RefreshToken |-> IF ans.refresh = Blank THEN user.RefreshToken
                           ELSE ans.refresh,
          Expiry |-> t + TokenLife]

Bearer == <<"B", "e", "a", "r", "e", "r">>

Flight(st0, cache0, v, err, fetched, fetchErr, provider, updates, updateErr) ==
    [st |-> st0, cache |-> cache0, v |-> v, err |-> err, fetched |-> fetched,
     fetchErr |-> fetchErr, provider |-> provider, updates |-> updates,
     updateErr |-> updateErr]

\* the closure gives up the record on a provider error: return nil, err
ProviderFailedNil(user, err) == [v |-> NilValue, err |-> err]

\* the closure after ts.Token() failed: return user, err
ProviderFailed(user, err) == [v |-> UserValue(user), err |-> err]

\* the closure after UpdateUser returned an error: user, err = UpdateUser(..)
\* has overwritten user; return user, err
UpdateFailed(fetched, returned, err) == [v |-> UserValue(returned), err |-> err]

\* the closure of UserSelectHandler.GetUser: the set of its results.  fg and
\* fu are the faults around its GetUser and its UpdateUser, ans the answer
\* of the provider.  provider and updates count the calls it made.
SelectClosure(w, uid, fg, fu, ans) ==
    UNION {
      IF g.err # Nil
      THEN {Flight(g.st, g.cache, NilValue, g.err, g.res, g.err, 0, 0, Nil)}
      ELSE IF ~ParseRFC3339(g.res.Expiry).ok
      THEN {Flight(g.st, g.cache, UserValue(g.res), ErrParse, g.res, Nil, 0, 0, Nil)}
      ELSE IF ~NeedsRefresh(ParseRFC3339(g.res.Expiry).t, w.now)
      THEN {Flight(g.st, g.cache, UserValue(g.res), Nil, g.res, Nil, 0, 0, Nil)}
      ELSE
        LET tok == ProviderToken(g.res, ans, w.now) IN
        IF tok.err # Nil
        THEN {Flight(g.st, g.cache, ProviderFailed(g.res, tok.err).v,
                     ProviderFailed(g.res, tok.err).err, g.res, Nil, 1, 0, Nil)}
        ELSE
          { IF u.err = Blocked
            THEN Flight(u.st, u.cache, NilValue, Blocked, g.res, Nil, 1, 1, Blocked)
            ELSE IF u.err # Nil
            THEN Flight(u.st, u.cache, UpdateFailed(g.res, u.res, u.err).v,
                        UpdateFailed(g.res, u.res, u.err).err, g.res, Nil, 1, 1,
                        u.err)
            ELSE Flight(u.st, u.cache, UserValue(u.res), Nil, g.res, Nil, 1, 1, Nil)
            : u \in UpdateUser([st |-> g.st, cache |-> g.cache, now |-> w.now],
                               UserAccess(g.res.ID, tok.AccessToken,
                                          tok.RefreshToken, Bearer, g.res.Scope,
                                          FormatRFC3339(tok.Expiry)),
                               fu) }
      : g \in GetUser(w, uid, fg) }

\* the handler reports every error of the closure
SelectReturnErr(v, err, res0) ==
    IF err # Nil THEN [res |-> res0, err |-> err]
    ELSE [res |-> v.user, err |-> Nil]

\* what the handler makes of the (value, err) of group.Do: a value that is
\* a UserAccess is stored in *res and nil is returned, whatever err is
SelectReturn(v, err, res0) ==
    IF err = Blocked THEN [res |-> res0, err |-> Blocked]
    ELSE IF v.isUser THEN [res |-> v.user, err |-> Nil]
    ELSE [res |-> res0, err |-> err]

(***************************************************************************)
(* State.                                                                  *)
(*   st     the Store: [variant, kvs, coll]                                *)
(*   cache  the Cache: key -> [val, exp]                                   *)
(*   now    the clock, in minutes since the epoch                          *)
(*   ticks  the number of ticks taken                                      *)
(*   last   the last call that was made and what it returned               *)
(*   fan    one service call's fan-out, step by step: the caller's         *)
(*          position, the two goroutines, the three channels               *)
(*   callers  the concurrent callers of the Select handler                 *)
(*   group  the singleflight group: key -> the caller that runs the call   *)
(*   writers  the concurrent writers of the document store, each inside    *)
(*          its save                                                       *)
(*   enc    the last call of the Encryptor and what it returned            *)
(*   reader  a GetUser between its read of the Store and its Cache.Put     *)
(*   up     the callback worker's UploadFile, step by step                 *)
(*   build  the callers of ConfigHandler.BuildConfig and its singleflight  *)
(*          group                                                          *)
(*   cb     the last callback request and how it was answered              *)
(*   dl     the download handler: its semaphore and the requests in it     *)
(*   pipe   a functional.Pipe: its chain and what the last Do returned     *)
(***************************************************************************)
VARIABLES st, cache, now, ticks, last, fan, callers, group, writers, enc,
          reader, up, build, cb, dl, pipe

vars == <<st, cache, now, ticks, last, fan, callers, group, writers, enc,
          reader, up, build, cb, dl, pipe>>

\* the state of the token service and of its parts
tokenVars == <<st, cache, now, ticks, last, fan, callers, group, writers, enc>>

\* the state of the services around it
outerVars == <<reader, up, build, cb, dl, pipe>>

World == [st |-> st, cache |-> cache, now |-> now]

(***************************************************************************)
(* Inputs of the calls.                                                    *)
(***************************************************************************)
sU1 == <<"u", "1">>
\* the same id as a caller may send it, not trimmed
sU1sp == <<" ", "u", "1">>

Uids == {sU1, sU1sp, <<Space>>}

\* an instant that is not a timestamp
BadExpiry == <<"x">>


\* users that pass validation: fields that need no trimming, fields that
\* do, an expiry that is no timestamp
ValidUsers ==
    {UserAccess(sU1, <<"A">>, <<"R">>, <<"t">>, <<"s">>, FormatRFC3339(T0 + 1)),
     UserAccess(sU1sp, <<"B", Space>>, <<"R">>, <<"t">>, <<"s">>, FormatRFC3339(T0 + 1)),
     UserAccess(sU1, <<"B">>, <<"R">>, <<"t">>, <<"s">>, BadExpiry)}

\* a user with the i-th of its six fields replaced by b
WithField(u, i, b) ==
    UserAccess(IF i = 1 THEN b ELSE u.ID,
               IF i = 2 THEN b ELSE u.AccessToken,
               IF i = 3 THEN b ELSE u.RefreshToken,
               IF i = 4 THEN b ELSE u.TokenType,
               IF i = 5 THEN b ELSE u.Scope,
               IF i = 6 THEN b ELSE u.Expiry)

\* one field blank: empty, or nothing but white space
BlankUsers ==
    {WithField(UserAccess(sU1, <<"A">>, <<"R">>, <<"t">>, <<"s">>, FormatRFC3339(T0 + 1)),
               i, IF i % 2 = 0 THEN Blank ELSE <<Space>>) : i \in 1..6}

Users == ValidUsers \cup BlankUsers

\* the environments a call of the sequential model may meet: no fault, or
\* one of the faults that the operation can run into
Faults(names) == {{}} \cup {{n} : n \in names}

CreateFaults == Faults({FCtx, FEncA, FEncB, FDown})
GetFaults == Faults({FCtx, FCacheGet, FCachePut, FDown})
UpdateFaults == Faults({FCtx, FEncA, FEncB, FCachePut, FDown}) \cup {{FCachePut, FCacheDel}}
DeleteFaults == Faults({FCtx, FCacheGet, FCacheDel, FDown})

\* the part of a call record that only a Select call fills: when it was
\* made, what its closure fetched, what the provider answered, how many
\* provider and UpdateUser calls it made, the faults around its UpdateUser
NoSelect == [at |-> 0, fetched |-> EmptyUser, fetchErr |-> Nil,
             ans |-> [ok |-> FALSE, access |-> Blank, refresh |-> Blank],
             provider |-> 0, updates |-> 0, updateErr |-> Nil, fu |-> {}]

NoCall == [op |-> "none", uid |-> Blank, user |-> EmptyUser, f |-> {},
           res |-> EmptyUser, err |-> Nil, sel |-> NoSelect]

Call(op, uid, user, f, r) ==
    [op |-> op, uid |-> uid, user |-> user, f |-> f, res |-> r.res,
     err |-> r.err, sel |-> NoSelect]

InitStore(v) == [variant |-> v, kvs |-> EmptyMap, coll |-> << >>]

\* no service call is in its fan-out
FanIdle ==
    [op |-> "none", pc |-> "idle", failA |-> FALSE, failB |-> FALSE,
     gA |-> "done", gB |-> "done", wg |-> 0, errChan |-> << >>,
     atokenChan |-> << >>, rtokenChan |-> << >>, ctxDone |-> FALSE,
     ctxAtPoll |-> FALSE, ret |-> "none"]

\* the callers that may call the Select handler at the same time
MaxCallers == 2
Callers == 1..MaxCallers

\* a caller that has not called yet
NotCalling ==
    [pc |-> "idle", uid |-> Blank, ctxDone |-> FALSE, leader |-> 0,
     overlap |-> 0, asked |-> 0, res |-> EmptyUser, err |-> Nil]

\* the goroutines that may write to the document store at the same time
MaxWriters == 2
Writers == 1..MaxWriters

\* a writer that has not called yet
NotWriting ==
    [pc |-> "idle", op |-> "none", user |-> EmptyUser, found |-> 0, err |-> Nil]

\* no call of the Encryptor has been made
NoEnc == [op |-> "none", text |-> Blank, key |-> "", val |-> Blank, err |-> Nil]

\* no GetUser is between its read of the Store and its Cache.Put
NotReading == [pc |-> "idle", id |-> Blank, user |-> EmptyUser]

\* no UploadFile is in progress
UploadIdle ==
    [pc |-> "idle", failUser |-> Nil, failFile |-> Nil,
     gU |-> "done", gF |-> "done", errChan |-> << >>, userChan |-> << >>,
     fileChan |-> << >>, ctxDone |-> FALSE, ret |-> "none"]

\* the zero value of response.ConfigResponse, as far as the model keeps it
NoConfig ==
    [Key |-> Blank, URL |-> [UserID |-> Blank, FileID |-> Blank],
     CallbackURL |-> Blank, UserID |-> Blank]

\* the zero value of request.ConfigRequest, as far as the model keeps it
NoConfigRequest ==
    [UserID |-> Blank, FileID |-> Blank, ModifiedDate |-> Blank,
     Convertible |-> FALSE]

\* a caller that has not called BuildConfig
NotBuilding ==
    [pc |-> "idle", request |-> NoConfigRequest, leader |-> 0,
     res |-> NoConfig, err |-> Nil]

NoBuilds == [reqs |-> [c \in Callers |-> NotBuilding], group |-> EmptyMap]

\* the callback body before any request
NoBody ==
    [kind |-> "none", token |-> "none", key |-> Blank, status |-> 0,
     claims |-> [present |-> FALSE, key |-> Blank, status |-> 0]]

\* no callback request has been made
NoCallback ==
    [made |-> FALSE, id |-> Blank, body |-> NoBody, env |-> {},
     code |-> 0, json |-> FALSE, error |-> 0, upload |-> FALSE]

\* Onlyoffice.Builder.AllowedDownloads: the size of the semaphore
AllowedDownloads == 2

\* the download requests that may be in the handler at the same time
MaxRequests == 3
Requests == 1..MaxRequests

\* a request that has not arrived
NotDownloading ==
    [pc |-> "idle", full |-> FALSE, acq |-> 0, rel |-> 0, work |-> 0,
     code |-> 0]

NoDownloads == [cur |-> 0, reqs |-> [r \in Requests |-> NotDownloading]]

\* NewPipe[int](): an empty chain; Do has not been called
NewPipe ==
    [chain |-> << >>, ran |-> FALSE, res |-> 0, err |-> Nil, called |-> << >>]

Init ==
    /\ st \in {InitStore(Memory), InitStore(Mongo)}
    /\ cache = EmptyMap
    /\ now = T0
    /\ ticks = 0
    /\ last = NoCall
    /\ fan = FanIdle
    /\ callers = [c \in Callers |-> NotCalling]
    /\ group = EmptyMap
    /\ writers = [w \in Writers |-> NotWriting]
    /\ enc = NoEnc
    /\ reader = NotReading
    /\ up = UploadIdle
    /\ build = NoBuilds
    /\ cb = NoCallback
    /\ dl = NoDownloads
    /\ pipe = NewPipe

\* a call of the service that ends with result r; a call that blocks has
\* not touched the Store or the Cache
Effect(r) ==
    /\ st' = r.st
    /\ cache' = r.cache
    /\ UNCHANGED <<now, ticks, fan, callers, group, writers, enc, outerVars>>

CreateUserCall(users, faults) ==
    \E user \in users, f \in faults :
        \E r \in CreateUser(World, user, f) :
            /\ Effect(r)
            /\ last' = Call("CreateUser", user.ID, user, f, r)

DoCreateUser == CreateUserCall(Users, CreateFaults)

DoGetUser ==
    \E uid \in Uids, f \in GetFaults :
        \E r \in GetUser(World, uid, f) :
            /\ Effect(r)
            /\ last' = Call("GetUser", uid, EmptyUser, f, r)

DoUpdateUser ==
    \E user \in Users, f \in UpdateFaults :
        \E r \in UpdateUser(World, user, f) :
            /\ Effect(r)
            /\ last' = Call("UpdateUser", user.ID, user, f, r)

DoDeleteUser ==
    \E uid \in Uids, f \in DeleteFaults :
        \E r \in DeleteUser(World, uid, f) :
            /\ Effect(r)
            /\ last' = Call("DeleteUser", uid, EmptyUser, f, r)

\* time passes
Tick ==
    /\ ticks < MaxTicks
    /\ now' = now + 1
    /\ ticks' = ticks + 1
    /\ UNCHANGED <<st, cache, last, fan, callers, group, writers, enc, outerVars>>

Next == DoCreateUser \/ DoGetUser \/ DoUpdateUser \/ DoDeleteUser \/ Tick

Spec == Init /\ [][Next]_vars

(***************************************************************************)
(* The Select handler, one call at a time: users are created, time passes, *)
(* and Select is called under every provider answer.                       *)
(***************************************************************************)
\* users whose token expires at the first instant, and after the refresh
\* margin has begun
SelectUsers ==
    {UserAccess(sU1, <<"A">>, <<"R">>, <<"t">>, <<"s">>, FormatRFC3339(ex)) :
        ex \in {T0, T0 + RefreshMargin + 1}}

SelectGetFaults == Faults({FCtx, FDown})
SelectUpdateFaults == Faults({FCtx, FEncA, FDown})

SelCreateUser == CreateUserCall(SelectUsers, {{}})

\* one call of UserSelectHandler.GetUser, with *res the zero value
DoSelect ==
    \E uid \in {sU1}, fg \in SelectGetFaults, fu \in SelectUpdateFaults,
       ans \in ProviderAnswers :
        \E c \in SelectClosure(World, uid, fg, fu, ans) :
            /\ st' = c.st
            /\ cache' = c.cache
            /\ UNCHANGED <<now, ticks, fan, callers, group, writers, enc, outerVars>>
            /\ last' = [op |-> "Select", uid |-> uid, user |-> EmptyUser,
                        f |-> fg,
                        res |-> SelectReturn(c.v, c.err, EmptyUser).res,
                        err |-> SelectReturn(c.v, c.err, EmptyUser).err,
                        sel |-> [at |-> now, fetched |-> c.fetched,
                                 fetchErr |-> c.fetchErr,
                                 ans |-> IF c.provider > 0 THEN ans
                                         ELSE NoSelect.ans,
                                 provider |-> c.provider,
                                 updates |-> c.updates,
                                 updateErr |-> c.updateErr,
                                 fu |-> IF c.updates > 0 THEN fu ELSE {}]]

NextSelect == SelCreateUser \/ DoSelect \/ Tick

SpecSelect == Init /\ [][NextSelect]_vars

(***************************************************************************)
(* Claims about the token service, checked under Spec.                     *)
(***************************************************************************)
IsNotFound(err) == err \in {ErrNotFound, ErrNoDocuments}

\* a UserAccess as the data model wants it: nothing to trim, an expiry that
\* is a timestamp
WellFormed(u) == Validate(u) = Nil /\ Trimmed(u) = u /\ ParseRFC3339(u.Expiry).ok

\* C2: a successful CreateUser(u) followed by GetUser(u.id), with no other
\* call in between and nothing failing around the GetUser, returns a record
\* equal to u.
C2_RoundTrip ==
    [][(/\ last.op = "CreateUser" /\ last.err = Nil /\ WellFormed(last.user)
        /\ last'.op = "GetUser" /\ last'.uid = last.user.ID /\ last'.f = {})
       => (last'.err = Nil /\ last'.res = last.user)]_vars

\* C8: the instant at which a cache entry stops being served is not later
\* than the expiry of the credential it holds (the TTL handed to Cache.Put
\* is at most expiry - now).
C8_TTLWithinValidity ==
    \A k \in DOMAIN cache :
        /\ cache[k].exp # 0
        /\ cache[k].exp <= UnixMilli(ParseRFC3339(cache[k].val.Expiry).t)

\* C9: after a successful DeleteUser(id), with nothing failing around it, a
\* following GetUser(id) fails with a not-found error.
C9_DeleteThenGet ==
    [][(/\ last.op = "DeleteUser" /\ last.err = Nil /\ last.f = {}
        /\ last'.op = "GetUser" /\ last'.uid = last.uid /\ last'.f = {})
       => IsNotFound(last'.err)]_vars

\* some field of u is blank once trimmed
HasBlankField(u) ==
    \E v \in {u.ID, u.AccessToken, u.RefreshToken, u.TokenType, u.Scope, u.Expiry} :
        TrimSpace(v) = Blank

\* C10: CreateUser and UpdateUser of a UserAccess with a blank field fail
\* with the validation error and leave the Store and the Cache as they were.
C10_ValidationBeforeEffect ==
    [][(last'.op \in {"CreateUser", "UpdateUser"} /\ HasBlankField(last'.user))
       => (last'.err = ErrValidation /\ st' = st /\ cache' = cache)]_vars

\* C10 witness: an update with a blank field was refused while the Store
\* and the Cache held a record
C10_Witness ==
    /\ last.op = "UpdateUser" /\ HasBlankField(last.user)
    /\ last.err = ErrValidation
    /\ Stored(st, sU1).err = Nil
    /\ sU1 \in DOMAIN cache

(***************************************************************************)
(* Claims about the Select handler, checked under SpecSelect.              *)
(***************************************************************************)
\* the last call was a Select whose fetch succeeded with a record whose
\* expiry is a timestamp
Selected ==
    /\ last.op = "Select"
    /\ last.sel.fetchErr = Nil
    /\ ParseRFC3339(last.sel.fetched.Expiry).ok

\* expiry - 2 minutes of the record the last Select fetched
RefreshAt == ParseRFC3339(last.sel.fetched.Expiry).t - RefreshMargin

\* C3, as claimed: the provider is called when now >= refreshAt, the
\* instant now = refreshAt included; when now < refreshAt there is no
\* provider call and no UpdateUser and the fetched record is returned.
C3_RefreshFromBoundary ==
    Selected =>
        /\ last.sel.at >= RefreshAt => last.sel.provider = 1
        /\ last.sel.at < RefreshAt =>
              /\ last.sel.provider = 0 /\ last.sel.updates = 0
              /\ last.err = Nil /\ last.res = last.sel.fetched

\* C3, amended: the provider is called exactly when now is later than
\* refreshAt, and UpdateUser exactly when the provider then delivered a
\* token; when now <= refreshAt there is no provider call and no UpdateUser
\* and the fetched record is returned.
C3_RefreshAfterBoundary ==
    Selected =>
        /\ last.sel.at > RefreshAt =>
              /\ last.sel.provider = 1
              /\ last.sel.updates = 1 <=> last.sel.ans.ok
        /\ last.sel.at <= RefreshAt =>
              /\ last.sel.provider = 0 /\ last.sel.updates = 0
              /\ last.err = Nil /\ last.res = last.sel.fetched

\* C3 witness: a Select made at the very instant refreshAt
C3_Witness ==
    /\ Selected
    /\ last.sel.at = RefreshAt
    /\ last.sel.provider = 0
    /\ last.res = last.sel.fetched

\* the provider was asked by the last Select and rejected the refresh
Rejected ==
    /\ last.op = "Select"
    /\ last.sel.provider = 1
    /\ ~last.sel.ans.ok

\* C4, as claimed: when the provider rejects the refresh, Select returns a
\* non-nil error.
C4_RejectionReported == Rejected => last.err # Nil

\* C4, amended: when the provider rejects the refresh, Select makes no
\* UpdateUser call, returns nil and hands back the record it fetched.
C4_RejectionSwallowed ==
    Rejected =>
        /\ last.err = Nil
        /\ last.res = last.sel.fetched
        /\ last.sel.updates = 0

\* C4 witness: a rejected refresh of a token that was due
C4_Witness ==
    /\ Rejected
    /\ last.sel.at > RefreshAt
    /\ last.err = Nil
    /\ last.res.AccessToken = <<"A">>

\* C5: when UpdateUser fails after the provider delivered a new token,
\* Select returns the error, and the record it hands back is not the
\* refreshed record that was not persisted.
C5_PersistFailureReported ==
    (/\ last.op = "Select"
     /\ last.sel.updates = 1
     /\ last.sel.updateErr \notin {Nil, Blocked})
    => (/\ last.err = last.sel.updateErr
        /\ last.res.AccessToken # last.sel.ans.access)

\* C6: Select of a stored user whose token is at or past its expiry, once
\* the fetch succeeded and the call returns, returns nil and a record that
\* is not empty, whatever the provider answers.
C6_ExpiredUserSelected ==
    (/\ Selected
     /\ ParseRFC3339(last.sel.fetched.Expiry).t <= last.sel.at
     /\ last.err # Blocked)
    => (last.err = Nil /\ last.res # EmptyUser)

\* C6 witness: the user was created with its expiry at the present instant,
\* the provider could not refresh, and Select returned it
C6_Witness ==
    /\ Selected
    /\ ParseRFC3339(last.sel.fetched.Expiry).t = last.sel.at
    /\ Rejected
    /\ last.err = Nil
    /\ last.res = UserAccess(sU1, <<"A">>, <<"R">>, <<"t">>, <<"s">>,
                             FormatRFC3339(T0))

(***************************************************************************)
(* The fan-out of CreateUser, GetUser and UpdateUser, step by step.  The   *)
(* caller starts two goroutines; each sends its token to its own channel   *)
(* (capacity 1) or its error to errChan (capacity 2), so no send blocks.   *)
(* CreateUser and GetUser pass wg.Wait() before the poll, UpdateUser polls *)
(* at once.  The deadline of the context may elapse at any moment.         *)
(***************************************************************************)
FanOps == {"CreateUser", "GetUser", "UpdateUser"}

\* wg.Wait() stands between the go statements and the select
Waits(op) == op \in {"CreateUser", "GetUser"}

\* the errors the two goroutines of the call in progress end with
FanErrs == (IF fan.failA THEN {ErrEncrypt} ELSE {})
           \cup (IF fan.failB THEN {ErrEncrypt} ELSE {})

FanOnly == UNCHANGED <<st, cache, now, ticks, last, callers, group, writers, enc, outerVars>>

\* wg.Add(2), the three make(chan ..) and the two go statements
FanCall ==
    /\ fan.pc = "idle"
    /\ \E op \in FanOps, failA \in BOOLEAN, failB \in BOOLEAN, done \in BOOLEAN :
          fan' = [FanIdle EXCEPT !.op = op,
                                 !.pc = IF Waits(op) THEN "wait" ELSE "poll",
                                 !.failA = failA, !.failB = failB,
                                 !.gA = "run", !.gB = "run", !.wg = 2,
                                 !.ctxDone = done]
    /\ FanOnly

\* the first goroutine: errChan <- err, or atokenChan <- aToken; wg.Done()
FanGoA ==
    /\ fan.gA = "run"
    /\ fan.pc # "idle"
    /\ fan' = [fan EXCEPT !.gA = "done", !.wg = @ - 1,
                          !.errChan = IF fan.failA THEN Append(@, ErrEncrypt) ELSE @,
                          !.atokenChan = IF fan.failA THEN @ ELSE Append(@, "a")]
    /\ FanOnly

\* the second goroutine: errChan <- err, or rtokenChan <- rToken; wg.Done()
FanGoB ==
    /\ fan.gB = "run"
    /\ fan.pc # "idle"
    /\ fan' = [fan EXCEPT !.gB = "done", !.wg = @ - 1,
                          !.errChan = IF fan.failB THEN Append(@, ErrEncrypt) ELSE @,
                          !.rtokenChan = IF fan.failB THEN @ ELSE Append(@, "r")]
    /\ FanOnly

\* the deadline of ctx elapses while the call is in progress
FanDeadline ==
    /\ fan.pc \in {"wait", "poll", "recvA", "recvB"}
    /\ ~fan.ctxDone
    /\ fan' = [fan EXCEPT !.ctxDone = TRUE]
    /\ FanOnly

\* wg.Wait() returns
FanWait ==
    /\ fan.pc = "wait"
    /\ fan.wg = 0
    /\ fan' = [fan EXCEPT !.pc = "poll"]
    /\ FanOnly

\* select { case err := <-errChan; case <-ctx.Done(); default }: one of the
\* ready cases, default only when none is ready
FanPoll ==
    /\ fan.pc = "poll"
    /\ \/ /\ fan.errChan # << >>
          /\ fan' = [fan EXCEPT !.pc = "returned", !.ret = Head(fan.errChan),
                                !.errChan = Tail(@), !.ctxAtPoll = fan.ctxDone]
       \/ /\ fan.ctxDone
          /\ fan' = [fan EXCEPT !.pc = "returned", !.ret = ErrOperationTimeout,
                                !.ctxAtPoll = TRUE]
       \/ /\ fan.errChan = << >>
          /\ ~fan.ctxDone
          /\ fan' = [fan EXCEPT !.pc = "recvA", !.ctxAtPoll = FALSE]
    /\ FanOnly

\* <-atokenChan
FanRecvA ==
    /\ fan.pc = "recvA"
    /\ fan.atokenChan # << >>
    /\ fan' = [fan EXCEPT !.pc = "recvB", !.atokenChan = Tail(@)]
    /\ FanOnly

\* <-rtokenChan; the call goes on with both tokens
FanRecvB ==
    /\ fan.pc = "recvB"
    /\ fan.rtokenChan # << >>
    /\ fan' = [fan EXCEPT !.pc = "returned", !.ret = Go, !.rtokenChan = Tail(@)]
    /\ FanOnly

\* the call is over; the next one makes its own channels
FanReturn ==
    /\ fan.pc = "returned"
    /\ fan' = FanIdle
    /\ FanOnly

NextFan ==
    \/ FanCall \/ FanGoA \/ FanGoB \/ FanDeadline \/ FanWait
    \/ FanPoll \/ FanRecvA \/ FanRecvB \/ FanReturn

SpecFan == Init /\ [][NextFan]_vars

\* the caller waits on a token channel whose goroutine has ended without
\* sending: nothing will ever arrive
FanStuck ==
    \/ fan.pc = "recvA" /\ fan.gA = "done" /\ fan.atokenChan = << >>
    \/ fan.pc = "recvB" /\ fan.gB = "done" /\ fan.rtokenChan = << >>

\* the step-by-step fan-out ends as FanOutcomes says: what a call returns
\* is an outcome of the summary, and a stuck call is its Blocked
FanAgrees ==
    /\ fan.pc = "returned" =>
          fan.ret \in FanOutcomes(FanErrs, fan.ctxAtPoll, Waits(fan.op))
    /\ FanStuck => Blocked \in FanOutcomes(FanErrs, FALSE, Waits(fan.op))

\* C7: in every interleaving of the two goroutines a call returns only after
\* both token operations have completed or one has failed (a timeout apart),
\* a call whose encryption failed and whose deadline has not elapsed returns
\* that error, and the caller never waits for a token that will not arrive.
C7_FanOutJoins ==
    /\ (fan.pc = "returned" /\ fan.ret # ErrOperationTimeout) =>
          \/ fan.gA = "done" /\ fan.gB = "done"
          \/ fan.gA = "done" /\ fan.failA
          \/ fan.gB = "done" /\ fan.failB
    /\ (fan.pc = "returned" /\ FanErrs # {} /\ ~fan.ctxDone) =>
          fan.ret = ErrEncrypt
    /\ ~FanStuck

\* the same for the calls that pass wg.Wait()
FanJoinsWhereWaited == Waits(fan.op) => C7_FanOutJoins

(***************************************************************************)
(* The Select handler under concurrent callers.  group.Do(key, fn): the    *)
(* first caller for a key runs fn; a caller that finds a call for its key  *)
(* in the group waits for it; when fn returns, the key leaves the group    *)
(* and the runner and all its waiters get the one (value, err).  fn is the *)
(* closure of the runner: it has captured the runner's ctx.  Each caller   *)
(* makes its own return of the shared (value, err), into its own *res.     *)
(***************************************************************************)
\* the ids the callers send: one user's id, as it is and not trimmed
SFUids == {sU1, sU1sp}

\* the faults around the UpdateUser of a flight
SFUpdateFaults == Faults({FEncA})

\* no caller ever finds a call in progress
InFlightNever(g, key) == FALSE

\* g.m[key] holds a call
InFlight(g, key) == key \in DOMAIN g

\* the callers whose closure for this key has not returned
Running(uid) ==
    {d \in Callers : callers[d].pc \in {"running", "blocked"} /\ callers[d].uid = uid}

SFOnly == UNCHANGED <<now, ticks, last, fan, writers, enc, outerVars>>

\* a user is stored while the callers are at work
SFCreateUser ==
    \E user \in SelectUsers :
        \E r \in CreateUser(World, user, {}) :
            /\ st' = r.st
            /\ cache' = r.cache
            /\ UNCHANGED <<callers, group>>
            /\ SFOnly

\* a caller enters UserSelectHandler.GetUser and group.Do: it joins the
\* call in progress for its key or becomes the runner of a new one
SFEnter(c) ==
    /\ callers[c].pc = "idle"
    /\ \E uid \in SFUids, done \in BOOLEAN :
          LET over == IF Running(uid) = {} THEN 0
                      ELSE CHOOSE d \in Running(uid) :
                               \A e \in Running(uid) : d <= e
              me == [NotCalling EXCEPT !.uid = uid, !.ctxDone = done,
                                       !.overlap = over]
          IN  IF InFlight(group, uid)
              THEN /\ callers' = [callers EXCEPT ![c] =
                          [me EXCEPT !.pc = "waiting", !.leader = group[uid]]]
                   /\ group' = group
              ELSE /\ callers' = [callers EXCEPT ![c] =
                          [me EXCEPT !.pc = "running", !.leader = c]]
                   /\ group' = MapPut(group, uid, c)
    /\ UNCHANGED <<st, cache>>
    /\ SFOnly

\* the closure of runner c, under its ctx
SFClosure(c, fu, ans) ==
    SelectClosure(World, callers[c].uid,
                  IF callers[c].ctxDone THEN {FCtx} ELSE {}, fu, ans)

\* the closure of a runner returns: the key leaves the group, the runner
\* and its waiters get the same (value, err) and return what the handler
\* makes of it
SFFinish(c) ==
    /\ callers[c].pc = "running"
    /\ \E fu \in SFUpdateFaults, ans \in ProviderAnswers :
        \E r \in SFClosure(c, fu, ans) :
            /\ r.err # Blocked
            /\ st' = r.st
            /\ cache' = r.cache
            /\ callers' =
                 [d \in Callers |->
                    IF d = c \/ (callers[d].pc = "waiting" /\ callers[d].leader = c)
                    THEN [callers[d] EXCEPT
                            !.pc = "returned",
                            !.res = SelectReturn(r.v, r.err, EmptyUser).res,
                            !.err = SelectReturn(r.v, r.err, EmptyUser).err,
                            !.asked = IF d = c THEN r.provider ELSE 0]
                    ELSE callers[d]]
            /\ group' = IF InFlight(group, callers[c].uid)
                           /\ group[callers[c].uid] = c
                        THEN MapDel(group, callers[c].uid)
                        ELSE group
    /\ SFOnly

\* the UpdateUser of the closure waits for a token that will not arrive:
\* the closure does not return and the key stays in the group
SFHang(c) ==
    /\ callers[c].pc = "running"
    /\ \E fu \in SFUpdateFaults, ans \in ProviderAnswers :
        \E r \in SFClosure(c, fu, ans) :
            /\ r.err = Blocked
            /\ st' = r.st
            /\ cache' = r.cache
            /\ callers' = [callers EXCEPT ![c].pc = "blocked",
                                          ![c].asked = r.provider]
    /\ UNCHANGED group
    /\ SFOnly

NextSF ==
    \/ SFCreateUser
    \/ \E c \in Callers : SFEnter(c)
    \/ \E c \in Callers : SFFinish(c)
    \/ \E c \in Callers : SFHang(c)

SpecSF == Init /\ [][NextSF]_vars

\* C1: a Select caller that entered while a call for its id was in flight
\* makes no provider call of its own, the call it overlapped asked the
\* provider at most once (once when it refreshed), and the caller returns
\* the identical record and the identical error as the runner of that call.
C1_SingleFlightCollapse ==
    \A c \in Callers :
        (callers[c].pc = "returned" /\ callers[c].overlap # 0) =>
            LET l == callers[c].overlap IN
            /\ callers[c].asked = 0
            /\ callers[l].asked <= 1
            /\ callers[l].pc = "returned"
            /\ callers[c].res = callers[l].res
            /\ callers[c].err = callers[l].err

\* a runner that refreshed with one provider call, and a caller that
\* overlapped it and returned its refreshed record
C1_Witness ==
    \E l \in Callers :
        /\ callers[l].pc = "returned"
        /\ callers[l].asked = 1
        /\ callers[l].err = Nil
        /\ callers[l].res.AccessToken = <<"N">>
        /\ \E c \in Callers : /\ callers[c].overlap = l
                              /\ callers[c].pc = "returned"
                              /\ callers[c].asked = 0
                              /\ callers[c].res = callers[l].res

\* callers that overlapped a call which failed return its error
C1_WitnessError ==
    \E l \in Callers :
        /\ callers[l].pc = "returned"
        /\ callers[l].err # Nil
        /\ \E c \in Callers : /\ callers[c].overlap = l
                              /\ callers[c].pc = "returned"
                              /\ callers[c].err = callers[l].err

(***************************************************************************)
(* Further claims about the token service, checked under Spec.             *)
(***************************************************************************)
\* C11: GetUser of a non-blank id and UpdateUser of a valid user, called with
\* a context whose deadline has already elapsed, return ErrOperationTimeout:
\* no success, no other error, no call that hangs.
C11_ExpiredDeadline ==
    (/\ last.op \in {"GetUser", "UpdateUser"}
     /\ FCtx \in last.f
     /\ last.op = "GetUser" => TrimSpace(last.uid) # Blank
     /\ last.op = "UpdateUser" => Validate(last.user) = Nil)
    => last.err = ErrOperationTimeout

\* the part of C11 that the code keeps: such a call never succeeds and
\* never hangs
ExpiredDeadlineFails ==
    (last.op \in {"GetUser", "UpdateUser"} /\ FCtx \in last.f)
    => last.err \notin {Nil, Blocked}

\* the records the Store holds, whatever its variant, and the records the
\* Cache holds
StoreRecords(s) ==
    {FromJSON(s.kvs[k]) : k \in DOMAIN s.kvs}
    \cup {DocUser(s.coll[i]) : i \in DOMAIN s.coll}

CacheRecords(c) == {c[k].val : k \in DOMAIN c}

\* a token as Encrypt under the service's key delivers it: the base64 mark,
\* a nonce, the seal of the key, the text
IsSealed(t) ==
    /\ Len(t) >= 3
    /\ t[1] = Base64Mark
    /\ t[2] \in Nonces
    /\ t[3] = ClientSecret

\* C12: in every reachable state the accessToken and the refreshToken of
\* every record in the Store and in the Cache are outputs of Encrypt; no
\* sequence of CreateUser, GetUser, UpdateUser and DeleteUser calls writes a
\* plaintext token to either.
C12_EncryptedAtRest ==
    \A r \in StoreRecords(st) \cup CacheRecords(cache) :
        IsSealed(r.AccessToken) /\ IsSealed(r.RefreshToken)

\* C12 witness: UpdateUser has written a record to the Cache and to the
\* Store, and a GetUser has since been served
C12_Witness ==
    /\ last.op = "GetUser"
    /\ last.err = Nil
    /\ StoreRecords(st) # {}
    /\ CacheRecords(cache) # {}
    /\ \E r \in CacheRecords(cache), n \in Nonces :
          r.AccessToken = Encrypt(<<"B">>, ClientSecret, n, FALSE).val

\* the results of the call that last records, were it made in world w with
\* the faults f
SameCall(l, w, f) ==
    CASE l.op = "CreateUser" -> CreateUser(w, l.user, f)
      [] l.op = "GetUser" -> GetUser(w, l.uid, f)
      [] l.op = "UpdateUser" -> UpdateUser(w, l.user, f)
      [] l.op = "DeleteUser" -> DeleteUser(w, l.uid, f)
      [] OTHER -> {}

\* a call whose Cache.Put or Cache.Delete fails ends as the same call with a
\* working cache: the same error or success, the same Store
SoftPutDelete(ops) ==
    (/\ now' = now
     /\ last'.op \in ops
     /\ last'.f # {}
     /\ last'.f \subseteq {FCachePut, FCacheDel})
    => \E r \in SameCall(last', World, {}) :
           r.err = last'.err /\ r.st = st'

\* a call whose Cache.Get fails ends as the same call on an empty cache
SoftGet(ops) ==
    (/\ now' = now
     /\ last'.op \in ops
     /\ last'.f = {FCacheGet})
    => \E r \in SameCall(last', [World EXCEPT !.cache = EmptyMap], {}) :
           r.err = last'.err /\ r.res = last'.res /\ r.st = st'

\* C13: a failing Cache.Put or Cache.Delete never makes GetUser, UpdateUser
\* or DeleteUser return an error or skip its Store operation, and a failing
\* Cache.Get is handled as a miss.
C13_CacheFailuresSoft ==
    [][/\ SoftPutDelete({"GetUser", "UpdateUser", "DeleteUser"})
       /\ SoftGet({"GetUser", "DeleteUser"})]_vars

\* the part of C13 that the code keeps: GetUser and UpdateUser, and the
\* Cache.Get of DeleteUser
CacheFailuresSoftButDelete ==
    [][/\ SoftPutDelete({"GetUser", "UpdateUser"})
       /\ SoftGet({"GetUser", "DeleteUser"})]_vars

(***************************************************************************)
(* The document store under concurrent writers.  mongoUserAdapter.save     *)
(* runs FirstWithCtx and then CreateWithCtx or UpdateWithCtx with the      *)
(* caller's ctx, not with the session context of the transaction it        *)
(* opened: the read and the write are two operations of the database, and  *)
(* other writers' operations may come between them.  The collection has no *)
(* unique index on uid.                                                    *)
(***************************************************************************)
\* what the writers store: two records for one id, and a record without id
WriterUsers ==
    {UserAccess(sU1, <<"A">>, <<"R">>, <<"t">>, <<"s">>, FormatRFC3339(T0 + 1)),
     UserAccess(sU1, <<"B">>, <<"R">>, <<"t">>, <<"s">>, FormatRFC3339(T0 + 1)),
     UserAccess(<<Space>>, <<"A">>, <<"R">>, <<"t">>, <<"s">>, FormatRFC3339(T0 + 1))}

MongoOnly ==
    UNCHANGED <<cache, now, ticks, last, fan, callers, group, enc, outerVars>>

\* InsertUser or UpsertUser: user.Validate(), then save up to its read,
\* collection.FirstWithCtx(ctx, bson.M{"uid": user.ID}, u)
SaveRead(w) ==
    /\ st.variant = Mongo
    /\ writers[w].pc = "idle"
    /\ \E op \in {"InsertUser", "UpsertUser"}, user \in WriterUsers :
          writers' = [writers EXCEPT ![w] =
              IF Validate(user) # Nil
              THEN [pc |-> "done", op |-> op, user |-> user, found |-> 0,
                    err |-> Validate(user)]
              ELSE [pc |-> "read", op |-> op, user |-> Trimmed(user),
                    found |-> First(st.coll, Trimmed(user).ID), err |-> Nil]]
    /\ UNCHANGED st
    /\ MongoOnly

\* the write of save: CreateWithCtx when the read found no document,
\* UpdateWithCtx of the document that was read otherwise
SaveWrite(w) ==
    /\ st.variant = Mongo
    /\ writers[w].pc = "read"
    /\ st' = [st EXCEPT !.coll =
                 IF writers[w].found = 0
                 THEN Append(@, NewDoc(writers[w].user))
                 ELSE [@ EXCEPT ![writers[w].found] = NewDoc(writers[w].user)]]
    /\ writers' = [writers EXCEPT ![w].pc = "done"]
    /\ MongoOnly

NextMongo == \E w \in Writers : SaveRead(w) \/ SaveWrite(w)

SpecMongo == Init /\ [][NextMongo]_vars

\* the writers whose call has returned success
Written == {w \in Writers : writers[w].pc = "done" /\ writers[w].err = Nil}

\* a writer that runs alone ends as MongoWrite says
SaveAgrees ==
    \A w \in Writers :
        (/\ writers[w].pc = "done"
         /\ \A v \in Writers \ {w} : writers[v].pc = "idle")
        => st.coll = MongoWrite(<< >>, writers[w].user, FALSE).coll

\* C14: once the InsertUser/UpsertUser calls for one user id have returned,
\* in whatever way their steps interleaved, the collection holds exactly one
\* document for that id, and its fields are those of one of the calls.
C14_OneDocumentPerId ==
    (\A w \in Writers : writers[w].pc \in {"idle", "done"})
    => \A w \in Written :
          /\ Cardinality(Matching(st.coll, writers[w].user.ID)) = 1
          /\ \E v \in Written :
                DocUser(st.coll[First(st.coll, writers[w].user.ID)])
                    = writers[v].user

(***************************************************************************)
(* The Store called directly, as the tests of the adapters call it, one    *)
(* call at a time, and the Token Service's GetUser on top of it.  The      *)
(* records are what a Token Service hands to InsertUser and UpsertUser:    *)
(* encrypted under the key of the day, and what the tests hand to them.    *)
(***************************************************************************)
\* the key of an earlier configuration (oauth2.Config.ClientSecret changed)
FormerSecret == "j"

\* a token sealed under a key
Sealed(text, key) == Encrypt(text, key, "n", FALSE).val

\* records handed to the adapters: two for one id, one with a blank field,
\* one whose id is not trimmed, one sealed under the former key
StoreUsers ==
    {UserAccess(sU1, Sealed(<<"A">>, ClientSecret), Sealed(<<"R">>, ClientSecret),
                <<"t">>, <<"s">>, FormatRFC3339(T0 + 1)),
     UserAccess(sU1, Sealed(<<"B">>, ClientSecret), Sealed(<<"R">>, ClientSecret),
                <<"t">>, <<"s">>, FormatRFC3339(T0 + 1)),
     UserAccess(sU1, Sealed(<<"A">>, ClientSecret), Sealed(<<"R">>, ClientSecret),
                <<"t">>, <<Space>>, FormatRFC3339(T0 + 1)),
     UserAccess(sU1sp, Sealed(<<"A">>, ClientSecret), Sealed(<<"R">>, ClientSecret),
                <<"t">>, <<"s">>, FormatRFC3339(T0 + 1)),
     UserAccess(sU1, Sealed(<<"A">>, FormerSecret), Sealed(<<"R">>, FormerSecret),
                <<"t">>, <<"s">>, FormatRFC3339(T0 + 1))}

sU2 == <<"u", "2">>

StoreUids == {sU1, sU1sp, sU2}

\* the contexts of the adapter calls: live, or with the deadline elapsed
StoreFaults == Faults({FCtx})

\* the Store holds a record under the key by which its variant looks uid up
HasRecord(s, uid) ==
    IF s.variant = Memory THEN uid \in DOMAIN s.kvs
    ELSE Matching(s.coll, TrimSpace(uid)) # {}

\* the record of a call of the Store; had: the Store held a record for the
\* id when the call was made
StoreCall(op, uid, user, f, res, err) ==
    [op |-> op, uid |-> uid, user |-> user, f |-> f, res |-> res, err |-> err,
     sel |-> NoSelect, had |-> HasRecord(st, uid)]

StoreOnly ==
    UNCHANGED <<now, ticks, fan, callers, group, writers, enc, outerVars>>

StoreInsertUser ==
    \E user \in StoreUsers, f \in StoreFaults :
        LET r == AdapterInsert(st, user, FCtx \in f, FALSE) IN
        /\ st' = r.st
        /\ last' = StoreCall("InsertUser", user.ID, user, f, EmptyUser, r.err)
        /\ UNCHANGED cache
        /\ StoreOnly

StoreUpsertUser ==
    \E user \in StoreUsers, f \in StoreFaults :
        LET r == AdapterUpsert(st, user, FCtx \in f, FALSE) IN
        /\ st' = r.st
        /\ last' = StoreCall("UpsertUser", user.ID, user, f, EmptyUser, r.err)
        /\ UNCHANGED cache
        /\ StoreOnly

StoreSelectUserByID ==
    \E uid \in StoreUids, f \in StoreFaults :
        LET r == AdapterSelect(st, uid, FCtx \in f, FALSE) IN
        /\ last' = StoreCall("SelectUserByID", uid, EmptyUser, f, r.user, r.err)
        /\ UNCHANGED <<st, cache>>
        /\ StoreOnly

StoreDeleteUserByID ==
    \E uid \in StoreUids, f \in StoreFaults :
        LET r == AdapterDelete(st, uid, FCtx \in f, FALSE) IN
        /\ st' = r.st
        /\ last' = StoreCall("DeleteUserByID", uid, EmptyUser, f, EmptyUser, r.err)
        /\ UNCHANGED cache
        /\ StoreOnly

\* userService.GetUser over the Store as it is
StoreGetUser ==
    \E r \in GetUser(World, sU1, {}) :
        /\ st' = r.st
        /\ cache' = r.cache
        /\ last' = StoreCall("GetUser", sU1, EmptyUser, {}, r.res, r.err)
        /\ StoreOnly

NextStore ==
    \/ StoreInsertUser \/ StoreUpsertUser \/ StoreSelectUserByID
    \/ StoreDeleteUserByID \/ StoreGetUser

SpecStore == Init /\ [][NextStore]_vars

(***************************************************************************)
(* Claims about the Store, checked under SpecStore.                        *)
(***************************************************************************)
\* C15: in both variants, InsertUser and UpsertUser called with a
\* UserAccess that has a blank field fail with the validation error and
\* leave the Store as it was.
C15_StoreValidates ==
    [][(last'.op \in {"InsertUser", "UpsertUser"} /\ HasBlankField(last'.user))
       => (last'.err = ErrValidation /\ st' = st)]_vars

\* the part of C15 that the code keeps: the document-store variant
StoreValidatesDocuments ==
    [][(/\ st.variant = Mongo
        /\ last'.op \in {"InsertUser", "UpsertUser"}
        /\ HasBlankField(last'.user))
       => (last'.err = ErrValidation /\ st' = st)]_vars

\* C16: in both variants, for a non-blank id with no stored record,
\* SelectUserByID fails with a not-found error and DeleteUserByID fails with
\* a not-found error; DeleteUserByID returns success only when it removed a
\* record.
C16_AbsentRecords ==
    /\ (/\ last.op \in {"SelectUserByID", "DeleteUserByID"}
        /\ TrimSpace(last.uid) # Blank
        /\ ~last.had
        /\ last.f = {})
       => IsNotFound(last.err)
    /\ (last.op = "DeleteUserByID" /\ last.err = Nil) => last.had

\* the part of C16 that the code keeps: SelectUserByID in both variants,
\* DeleteUserByID in the in-memory variant
AbsentRecordsButDocumentDelete ==
    /\ (/\ last.op \in {"SelectUserByID", "DeleteUserByID"}
        /\ last.op = "DeleteUserByID" => st.variant = Memory
        /\ TrimSpace(last.uid) # Blank
        /\ ~last.had
        /\ last.f = {})
       => IsNotFound(last.err)
    /\ (last.op = "DeleteUserByID" /\ last.err = Nil /\ st.variant = Memory)
       => last.had

\* a record as the Token Service hands it to the Store: no field blank, no
\* white space around a field
Plain(u) == Validate(u) = Nil /\ Trimmed(u) = u

\* the Store holds at most one record under an id
OneRecordPerId(s) ==
    /\ \A k \in DOMAIN s.kvs : s.kvs[k].id = k
    /\ \A i, j \in DOMAIN s.coll : s.coll[i].UID = s.coll[j].UID => i = j

\* C17: InsertUser and UpsertUser of a record succeed whether or not its id
\* is already stored, after any sequence of such calls the Store holds one
\* record per id, and a SelectUserByID that follows a write returns exactly
\* the fields of that write.
C17_CreateOrOverwrite ==
    [][/\ (/\ last'.op \in {"InsertUser", "UpsertUser"}
           /\ Plain(last'.user)
           /\ last'.f = {})
          => last'.err = Nil
       /\ OneRecordPerId(st')
       /\ (/\ last.op \in {"InsertUser", "UpsertUser"}
           /\ last.err = Nil
           /\ Plain(last.user)
           /\ last'.op = "SelectUserByID"
           /\ last'.uid = last.user.ID
           /\ last'.f = {})
          => (last'.err = Nil /\ last'.res = last.user)]_vars

\* C17 witness: InsertUser of an id that was already stored has succeeded,
\* and the Store holds the one record of that write
C17_Witness ==
    /\ last.op = "InsertUser"
    /\ last.had
    /\ last.err = Nil
    /\ Plain(last.user)
    /\ last.user.AccessToken = Sealed(<<"B">>, ClientSecret)
    /\ Stored(st, last.user.ID).user = last.user
    /\ OneRecordPerId(st)

(***************************************************************************)
(* Claims about the token service, checked under Spec (continued).         *)
(***************************************************************************)
\* C18: no record with an expiry that does not parse is ever persisted:
\* CreateUser and UpdateUser reject it before any Store or Cache write, so
\* the expiry of every record in the Store and in the Cache is a timestamp.
C18_ExpiryParses ==
    \A r \in StoreRecords(st) \cup CacheRecords(cache) :
        ParseRFC3339(r.Expiry).ok

\* the part of C18 that the code keeps: UpdateUser rejects such a record
\* and writes nothing
UpdateUserRejectsExpiry ==
    [][(/\ last'.op = "UpdateUser"
        /\ Validate(last'.user) = Nil
        /\ ~ParseRFC3339(Trimmed(last'.user).Expiry).ok)
       => (last'.err # Nil /\ st' = st /\ cache' = cache)]_vars

(***************************************************************************)
(* The Encryptor called directly: texts are encrypted under a key, and     *)
(* ciphertexts, tampered ciphertexts and other strings are decrypted under *)
(* the same or another key.                                                *)
(***************************************************************************)
\* the longest text that is encrypted
MaxText == 2

\* the texts of up to n characters
Texts(n) == UNION {[1..k -> {"A", "B"}] : k \in 0..n}

Keys == {ClientSecret, FormerSecret}

\* a ciphertext whose sealed part was altered: its tag verifies under no key
Tampered(text) == <<Base64Mark, "n", "!">> \o text

\* what Decrypt is called with: ciphertexts under either key, tampered
\* ciphertexts, the empty string, a payload shorter than the nonce, a bare
\* nonce, a string that is not base64
DecryptInputs ==
    {Sealed(t, k) : t \in Texts(MaxText), k \in Keys}
    \cup {Tampered(t) : t \in Texts(MaxText)}
    \cup {Blank, <<Base64Mark>>, <<Base64Mark, "n">>, <<"x">>}

CryptoOnly ==
    UNCHANGED <<st, cache, now, ticks, last, fan, callers, group, writers, outerVars>>

DoEncrypt ==
    /\ \E text \in Texts(MaxText), key \in Keys, nonce \in Nonces,
          fail \in BOOLEAN :
          enc' = [op |-> "Encrypt", text |-> text, key |-> key,
                  val |-> Encrypt(text, key, nonce, fail).val,
                  err |-> Encrypt(text, key, nonce, fail).err]
    /\ CryptoOnly

DoDecrypt ==
    /\ \E text \in DecryptInputs, key \in Keys :
          enc' = [op |-> "Decrypt", text |-> text, key |-> key,
                  val |-> Decrypt(text, key).val,
                  err |-> Decrypt(text, key).err]
    /\ CryptoOnly

NextCrypto == DoEncrypt \/ DoDecrypt

SpecCrypto == Init /\ [][NextCrypto]_vars

\* the string is base64, and what it decodes to
IsBase64(t) == t = << >> \/ Head(t) = Base64Mark
Decoded(t) == IF t = << >> THEN << >> ELSE Tail(t)

\* the authentication tag of the payload verifies under the key
TagVerifies(buf, key) == Len(buf) > NonceSize /\ buf[NonceSize + 1] = key

\* C19: Decrypt returns the invalid-nonce-size error when the decoded input
\* is shorter than the nonce, and returns the empty string with no error
\* when the authentication tag does not verify (wrong key or tampered
\* ciphertext).
C19_DecryptFailureModes ==
    (enc.op = "Decrypt" /\ IsBase64(enc.text)) =>
        /\ Len(Decoded(enc.text)) < NonceSize
              => (enc.err = ErrInvalidNonceSize /\ enc.val = Blank)
        /\ (/\ Len(Decoded(enc.text)) >= NonceSize
            /\ ~TagVerifies(Decoded(enc.text), enc.key))
              => (enc.err = Nil /\ enc.val = Blank)

\* C19 witness: a text sealed under one key was decrypted under the other,
\* and Decrypt returned the empty string and no error
C19_Witness ==
    /\ enc.op = "Decrypt"
    /\ enc.text = Sealed(<<"A", "B">>, FormerSecret)
    /\ enc.key = ClientSecret
    /\ enc.err = Nil
    /\ enc.val = Blank

\* Decrypt of what Encrypt delivered under the same key is the text
DecryptInverts ==
    \A t \in Texts(MaxText), k \in Keys :
        Decrypt(Sealed(t, k), k) = [val |-> t, err |-> Nil]

(***************************************************************************)
(* Claims about GetUser over a Store that holds what other writers left,   *)
(* checked under SpecStore.                                                *)
(***************************************************************************)
\* C20: when a stored token cannot be decrypted (corrupted ciphertext or key
\* mismatch) GetUser returns an error; it never returns success with a
\* record whose accessToken or refreshToken is blank.
C20_DecryptFailuresSurface ==
    (last.op = "GetUser" /\ last.err = Nil)
    => (last.res.AccessToken # Blank /\ last.res.RefreshToken # Blank)

CacheWriteLost(f) == {FCachePut, FCacheDel} \subseteq f

C26_ContextIsolation ==
    \A c \in Callers :
        (callers[c].pc = "returned" /\ ~callers[c].ctxDone) =>
            callers[c].err # ErrOperationTimeout

(***************************************************************************)
(* Further claims about the keys and the Cache, checked under Spec.        *)
(***************************************************************************)
\* C23: a successful DeleteUser of an id that passes the blank check, with
\* nothing failing around it, addresses the keys GetUser addresses: the
\* Cache has no entry and the Store has no record under the trimmed id.
C23_SameKeyForSameId ==
    [][(/\ last'.op = "DeleteUser" /\ last'.err = Nil /\ last'.f = {}
        /\ TrimSpace(last'.uid) # Blank)
       => (/\ TrimSpace(last'.uid) \notin DOMAIN cache'
           /\ IsNotFound(Stored(st', TrimSpace(last'.uid)).err))]_vars

\* C25: an UpdateUser whose UpsertUser fails leaves the Cache as it was
\* before the call.
C25_FailedUpdateKeepsCache ==
    [][(last'.op = "UpdateUser" /\ last'.err = ErrStore) => cache' = cache]_vars

(***************************************************************************)
(* GetUser beside UpdateUser and DeleteUser.  On a cache miss GetUser      *)
(* reads the record from the Store and then puts it into the Cache; other  *)
(* calls of the service may run between the two.  Every id is trimmed and  *)
(* nothing fails but the Cache.Put of an UpdateUser, which the call makes  *)
(* up for with its Cache.Delete: each call taken alone leaves the Cache    *)
(* and the Store in agreement.                                             *)
(***************************************************************************)
\* the users the calls write: two ids, two access tokens each
RaceUsers ==
    {UserAccess(id, at, <<"R">>, <<"t">>, <<"s">>, FormatRFC3339(T0 + 1)) :
        id \in {sU1, sU2}, at \in {<<"A">>, <<"B">>}}

RaceUids == {u.ID : u \in RaceUsers}

\* the Cache takes the entry of an UpdateUser, or refuses it
RaceUpdateFaults == {{}, {FCachePut}}

RaceOnly ==
    UNCHANGED <<now, ticks, last, fan, callers, group, writers, enc,
                up, build, cb, dl, pipe>>

\* GetUser finds no valid entry in the Cache and a record in the Store
MissesWithRecord(w, id) ==
    /\ Validate(IF CacheGet(w.cache, w.now, id, FALSE).hit
                THEN Decode(CacheGet(w.cache, w.now, id, FALSE).val)
                ELSE EmptyUser) # Nil
    /\ AdapterSelect(w.st, id, FALSE, FALSE).err = Nil
    /\ ParseRFC3339(AdapterSelect(w.st, id, FALSE, FALSE).user.Expiry).ok

\* GetUser up to and including SelectUserByID on the cache-miss path; a
\* call that takes another path runs to its end
RaceGetSelect ==
    /\ reader.pc = "idle"
    /\ \E id \in RaceUids :
          IF MissesWithRecord(World, id)
          THEN /\ reader' = [pc |-> "selected", id |-> id,
                             user |-> AdapterSelect(st, id, FALSE, FALSE).user]
               /\ UNCHANGED <<st, cache>>
          ELSE \E r \in GetUser(World, id, {}) :
                  /\ st' = r.st
                  /\ cache' = r.cache
                  /\ UNCHANGED reader
    /\ RaceOnly

\* the rest of that GetUser: Cache.Put of the record it read, the two
\* decryptions, the return
RaceGetPut ==
    /\ reader.pc = "selected"
    /\ cache' = CachePut(cache, now, reader.id, reader.user,
                         CacheTTL(ParseRFC3339(reader.user.Expiry).t),
                         FALSE).cache
    /\ reader' = NotReading
    /\ UNCHANGED st
    /\ RaceOnly

RaceUpdateUser ==
    /\ \E user \in RaceUsers :
          \E f \in RaceUpdateFaults : \E r \in UpdateUser(World, user, f) :
              /\ st' = r.st
              /\ cache' = r.cache
    /\ UNCHANGED reader
    /\ RaceOnly

RaceDeleteUser ==
    /\ \E uid \in RaceUids :
          \E r \in DeleteUser(World, uid, {}) :
              /\ st' = r.st
              /\ cache' = r.cache
    /\ UNCHANGED reader
    /\ RaceOnly

NextRace == RaceGetSelect \/ RaceGetPut \/ RaceUpdateUser \/ RaceDeleteUser

SpecRace == Init /\ [][NextRace]_vars

\* the entry of the Cache under id is the record of the Store under id
Faithful(id) ==
    /\ Stored(st, id).err = Nil
    /\ Stored(st, id).user = cache[id].val

\* C22: whenever no operation of the service is in progress, every entry of
\* the Cache equals the record the Store holds for its id.
C22_CacheFaithful ==
    reader.pc = "idle" => \A id \in DOMAIN cache : Faithful(id)

\* the same while the GetUser that missed has not yet put its record: the
\* calls taken one after another keep the Cache and the Store in agreement
FaithfulBeforeLatePut ==
    [][(\A id \in DOMAIN cache : Faithful(id)) /\ reader'.pc = reader.pc
       => (\A id \in DOMAIN cache' : Stored(st', id).err = Nil
                                     /\ Stored(st', id).user = cache'[id].val)]_vars

(***************************************************************************)
(* worker.CallbackWorker.UploadFile, step by step.  The worker makes its   *)
(* own context with the upload timeout, starts one goroutine that fetches  *)
(* the user's credentials and one that downloads the file, polls           *)
(*   select { <-errChan; <-ctx.Done(); default }                           *)
(* with no wg.Wait() before it, then receives from userChan and fileChan   *)
(* and uploads.                                                            *)
(***************************************************************************)
ErrUnmarshal == "could not parse job message"
ErrUserCall == "could not get user credentials"
ErrDownload == "could not download a new file"
ErrInvalidContentLength == "invalid content length"
ErrHandlerTimeout == "http: Handler timeout"
ErrGdrive == "drive error"

\* how the two goroutines may end: Nil, or the error they send
UserFailures == {Nil, ErrUserCall}
FileFailures == {Nil, ErrDownload, ErrInvalidContentLength}

UploadOnly == UNCHANGED <<tokenVars, reader, build, cb, dl, pipe>>

\* context.WithTimeout, json.Unmarshal of the payload, wg.Add(2), the three
\* make(chan ..) and the two go statements
UpCall ==
    /\ up.pc = "idle"
    /\ \E parses \in BOOLEAN, fu \in UserFailures, ff \in FileFailures :
          up' = IF ~parses
                THEN [UploadIdle EXCEPT !.pc = "returned", !.ret = ErrUnmarshal]
                ELSE [UploadIdle EXCEPT !.pc = "poll", !.failUser = fu,
                                        !.failFile = ff, !.gU = "run",
                                        !.gF = "run"]
    /\ UploadOnly

\* the first goroutine: errChan <- err, or userChan <- ures
UpGoUser ==
    /\ up.gU = "run"
    /\ up' = [up EXCEPT !.gU = "done",
                        !.errChan = IF up.failUser # Nil
                                    THEN Append(@, up.failUser) ELSE @,
                        !.userChan = IF up.failUser # Nil
                                     THEN @ ELSE Append(@, "ures")]
    /\ UploadOnly

\* the second goroutine: errChan <- err, or fileChan <- resp.Body
UpGoFile ==
    /\ up.gF = "run"
    /\ up' = [up EXCEPT !.gF = "done",
                        !.errChan = IF up.failFile # Nil
                                    THEN Append(@, up.failFile) ELSE @,
                        !.fileChan = IF up.failFile # Nil
                                     THEN @ ELSE Append(@, "body")]
    /\ UploadOnly

\* the upload timeout elapses
UpDeadline ==
    /\ up.pc \in {"poll", "recvUser", "recvFile", "upload"}
    /\ ~up.ctxDone
    /\ up' = [up EXCEPT !.ctxDone = TRUE]
    /\ UploadOnly

\* the select: one of the ready cases, default only when none is ready
UpPoll ==
    /\ up.pc = "poll"
    /\ \/ /\ up.errChan # << >>
          /\ up' = [up EXCEPT !.pc = "returned", !.ret = Head(up.errChan),
                              !.errChan = Tail(@)]
       \/ /\ up.ctxDone
          /\ up' = [up EXCEPT !.pc = "returned", !.ret = ErrHandlerTimeout]
       \/ /\ up.errChan = << >>
          /\ ~up.ctxDone
          /\ up' = [up EXCEPT !.pc = "recvUser"]
    /\ UploadOnly

\* ures := <-userChan
UpRecvUser ==
    /\ up.pc = "recvUser"
    /\ up.userChan # << >>
    /\ up' = [up EXCEPT !.pc = "recvFile", !.userChan = Tail(@)]
    /\ UploadOnly

\* body := <-fileChan
UpRecvFile ==
    /\ up.pc = "recvFile"
    /\ up.fileChan # << >>
    /\ up' = [up EXCEPT !.pc = "upload", !.fileChan = Tail(@)]
    /\ UploadOnly

\* drive.NewService, Files.Get and Files.Insert or Files.Update: the file
\* is uploaded, or a call to the drive fails
UpUpload ==
    /\ up.pc = "upload"
    /\ \E ret \in {Nil, ErrGdrive} :
          up' = [up EXCEPT !.pc = "returned", !.ret = ret]
    /\ UploadOnly

\* the job is over; the next one makes its own channels
UpReturn ==
    /\ up.pc = "returned"
    /\ up' = UploadIdle
    /\ UploadOnly

NextUpload ==
    \/ UpCall \/ UpGoUser \/ UpGoFile \/ UpDeadline \/ UpPoll
    \/ UpRecvUser \/ UpRecvFile \/ UpUpload \/ UpReturn

SpecUpload == Init /\ [][NextUpload]_vars

\* the worker waits on a channel whose goroutine has ended without sending
UpStuck ==
    \/ up.pc = "recvUser" /\ up.gU = "done" /\ up.userChan = << >>
    \/ up.pc = "recvFile" /\ up.gF = "done" /\ up.fileChan = << >>

\* the worker is at the upload, or has returned from it
UpAtUpload ==
    \/ up.pc = "upload"
    \/ up.pc = "returned" /\ up.ret \in {Nil, ErrGdrive}

\* C24: in every interleaving of the two goroutines UploadFile is at the
\* upload only after both have delivered a value, a job one of whose
\* goroutines failed and whose timeout has not elapsed returns that error,
\* and the worker never waits on a channel whose producer has failed.
C24_UploadJoins ==
    /\ UpAtUpload =>
          /\ up.gU = "done" /\ up.failUser = Nil
          /\ up.gF = "done" /\ up.failFile = Nil
    /\ (up.pc = "returned" /\ ~up.ctxDone
        /\ (up.failUser # Nil \/ up.failFile # Nil)) =>
          up.ret \in {up.failUser, up.failFile} \ {Nil}
    /\ ~UpStuck

(***************************************************************************)
(* handler.ConfigHandler.BuildConfig under concurrent callers.  The call   *)
(* goes through group.Do with the key "config-" + the user's id; the       *)
(* closure fetches the user's credentials and builds the editor config of  *)
(* the request it has captured, the runner's.                              *)
(***************************************************************************)
sF1 == <<"f", "1">>
sF2 == <<"f", "2">>

\* the requests the callers make: two users, two files, the first in an
\* editor format, the second in a format of the drive that needs an export
BuildRequests ==
    {[UserID |-> u, FileID |-> f, ModifiedDate |-> <<"m">>,
      Convertible |-> (f = sF2)] : u \in {sU1, sU2}, f \in {sF1, sF2}}

ErrConfig == "could not build config"

\* fmt.Sprintf("config-%s", request.UserInfo.Id)
ConfigKey(uid) == <<"config-">> \o uid

\* hasher.Hash
Hash(s) == <<"h">> \o s

\* processConfig: the document key, the claims of the download token in
\* the document URL, the callback URL with the file id; fails: GetFileType
\* or the signing of the config fails
processConfig(req, t, fails) ==
    [config |-> [Key |-> IF req.Convertible THEN Hash(FormatRFC3339(t))
                         ELSE Hash(req.ModifiedDate \o req.FileID),
                 URL |-> [UserID |-> req.UserID, FileID |-> req.FileID],
                 CallbackURL |-> req.FileID,
                 UserID |-> req.UserID],
     err |-> IF fails THEN ErrConfig ELSE Nil]

\* the closure of group.Do: (config, nil), or (nil, err)
BuildClosure(req, t, callFails, fails) ==
    IF callFails THEN [isConfig |-> FALSE, config |-> NoConfig, err |-> ErrUserCall]
    ELSE IF processConfig(req, t, fails).err # Nil
    THEN [isConfig |-> FALSE, config |-> NoConfig,
          err |-> processConfig(req, t, fails).err]
    ELSE [isConfig |-> TRUE, config |-> processConfig(req, t, fails).config,
          err |-> Nil]

BuildOnly == UNCHANGED <<tokenVars, reader, up, cb, dl, pipe>>

\* a caller enters BuildConfig and group.Do: it joins the call in progress
\* for its key or becomes the runner of a new one
BuildEnter(c) ==
    /\ build.reqs[c].pc = "idle"
    /\ \E rq \in BuildRequests :
          LET key == ConfigKey(rq.UserID) IN
          IF InFlight(build.group, key)
          THEN build' = [build EXCEPT !.reqs[c] =
                    [NotBuilding EXCEPT !.pc = "waiting", !.request = rq,
                                        !.leader = build.group[key]]]
          ELSE build' = [reqs |-> [build.reqs EXCEPT ![c] =
                            [NotBuilding EXCEPT !.pc = "running", !.request = rq,
                                                !.leader = c]],
                         group |-> MapPut(build.group, key, c)]
    /\ BuildOnly

\* the closure of runner c returns: the key leaves the group; the runner
\* and its waiters get the same (value, err), and each sets *res to the
\* value when it is a ConfigResponse and returns err otherwise
BuildFinish(c) ==
    /\ build.reqs[c].pc = "running"
    /\ \E callFails \in BOOLEAN, fails \in BOOLEAN :
          LET r == BuildClosure(build.reqs[c].request, now, callFails, fails) IN
          build' = [reqs |->
                      [d \in Callers |->
                         IF d = c \/ (build.reqs[d].pc = "waiting"
                                      /\ build.reqs[d].leader = c)
                         THEN [build.reqs[d] EXCEPT
                                 !.pc = "returned",
                                 !.res = IF r.isConfig THEN r.config ELSE NoConfig,
                                 !.err = IF r.isConfig THEN Nil ELSE r.err]
                         ELSE build.reqs[d]],
                    group |-> MapDel(build.group,
                                     ConfigKey(build.reqs[c].request.UserID))]
    /\ BuildOnly

\* the caller has its answer and may call again
BuildReturn(c) ==
    /\ build.reqs[c].pc = "returned"
    /\ build' = [build EXCEPT !.reqs[c] = NotBuilding]
    /\ BuildOnly

NextBuild ==
    \/ \E c \in Callers : BuildEnter(c)
    \/ \E c \in Callers : BuildFinish(c)
    \/ \E c \in Callers : BuildReturn(c)

SpecBuild == Init /\ [][NextBuild]_vars

\* C27: a BuildConfig caller that returns without error holds the config
\* built for its own request: its file's document key, a download token
\* for its file, the callback URL of its file.
C27_OwnConfig ==
    \A c \in Callers :
        (build.reqs[c].pc = "returned" /\ build.reqs[c].err = Nil) =>
            build.reqs[c].res = processConfig(build.reqs[c].request, now, FALSE).config

(***************************************************************************)
(* controller.CallbackController: validateRequest and the handler built by *)
(* BuildPostHandleCallback, one request at a time.  A panic of the handler *)
(* is caught by the router's Recoverer, which answers 500 with no body.    *)
(***************************************************************************)
ErrInvalidFileId == "invalid file id request parameter"
ErrCallbackBodyDecoding == "could not decode a callback body"
ErrJwtVerification == "could not verify callback jwt"
ErrMissingField == "missing request field"

\* CallbackRequest.Validate accepts 0 < status <= MaxStatus
MaxStatus == 7

Statuses == 0..(MaxStatus + 1)

\* the bodies a request may carry: not JSON, the JSON null, or an object
\* with its token (none, one that does not verify, one that does), its own
\* key and status, and the claims the token carries, if it carries them
Bodies ==
    {[NoBody EXCEPT !.kind = k] : k \in {"garbage", "null"}}
    \cup {[kind |-> "object", token |-> t, key |-> <<"k">>, status |-> s,
           claims |-> NoBody.claims] :
             t \in {"none", "bad", "good"}, s \in Statuses}
    \cup {[kind |-> "object", token |-> "good", key |-> <<"k">>, status |-> 2,
           claims |-> [present |-> TRUE, key |-> k, status |-> s]] :
             k \in {<<"k">>, <<Space>>}, s \in Statuses}

\* the id parameter of the callback URL
FileIds == {Blank, <<Space>>, sF1}

FSize == "file too large"
FRetrieve == "credentials or download fail"
FUpload == "drive refuses the upload"

CallbackEnvs == Faults({FSize, FRetrieve, FUpload})

\* mapstructure.Decode of the token's claims into the decoded body: the
\* members the claims carry replace the body's
Merged(body) ==
    IF body.claims.present
    THEN [body EXCEPT !.key = body.claims.key, !.status = body.claims.status]
    ELSE body

\* CallbackRequest.Validate, for a body whose token is not blank
ValidateCallback(body) ==
    IF TrimSpace(body.key) = Blank THEN ErrMissingField
    ELSE IF body.status <= 0 \/ body.status > MaxStatus THEN ErrMissingField
    ELSE Nil

\* validateRequest: the body, an error, or a panic (body.Token of the nil
\* body that JSON null decodes to; err.Error() of the nil error of a
\* token that verified when Validate refuses the body)
validateRequest(id, body) ==
    IF TrimSpace(id) = Blank
    THEN [panic |-> FALSE, err |-> ErrInvalidFileId, body |-> NoBody]
    ELSE IF body.kind = "garbage"
    THEN [panic |-> FALSE, err |-> ErrCallbackBodyDecoding, body |-> NoBody]
    ELSE IF body.kind = "null"
    THEN [panic |-> TRUE, err |-> Nil, body |-> NoBody]
    ELSE IF body.token = "none"
    THEN [panic |-> FALSE, err |-> ErrCallbackBodyDecoding, body |-> NoBody]
    ELSE IF body.token = "bad"
    THEN [panic |-> FALSE, err |-> ErrJwtVerification, body |-> NoBody]
    ELSE IF ValidateCallback(Merged(body)) # Nil
    THEN [panic |-> TRUE, err |-> Nil, body |-> NoBody]
    ELSE [panic |-> FALSE, err |-> Nil,
          body |-> [Merged(body) EXCEPT !.key = TrimSpace(@)]]

Answer(code, json, error, upload) ==
    [code |-> code, json |-> json, error |-> error, upload |-> upload]

\* sendErrorResponse: 400 and {"error":1}
ErrorResponse(upload) == Answer(400, TRUE, 1, upload)

\* the handler of BuildPostHandleCallback; upload: uploadFile was called
HandleCallback(id, body, env) ==
    LET v == validateRequest(id, body) IN
    IF v.panic THEN Answer(500, FALSE, 0, FALSE)
    ELSE IF v.err # Nil THEN ErrorResponse(FALSE)
    ELSE IF v.body.status = 2
    THEN IF FSize \in env THEN ErrorResponse(FALSE)
         ELSE IF FRetrieve \in env THEN ErrorResponse(FALSE)
         ELSE IF FUpload \in env THEN ErrorResponse(TRUE)
         ELSE Answer(200, TRUE, 0, TRUE)
    ELSE Answer(200, TRUE, 0, FALSE)

CallbackOnly == UNCHANGED <<tokenVars, reader, up, build, dl, pipe>>

DoCallback ==
    /\ \E id \in FileIds, body \in Bodies, env \in CallbackEnvs :
          LET a == HandleCallback(id, body, env) IN
          cb' = [made |-> TRUE, id |-> id, body |-> body, env |-> env,
                 code |-> a.code, json |-> a.json, error |-> a.error,
                 upload |-> a.upload]
    /\ CallbackOnly

NextCallback == DoCallback

SpecCallback == Init /\ [][NextCallback]_vars

\* a request the handler is to refuse: no file id, a body that is no
\* object, no token or one that does not verify, a key that is blank or a
\* status outside 1..7
InvalidCallback(id, body) ==
    \/ TrimSpace(id) = Blank
    \/ body.kind # "object"
    \/ body.token # "good"
    \/ TrimSpace(Merged(body).key) = Blank
    \/ Merged(body).status \notin 1..MaxStatus

\* C28: every callback request is answered with JSON whose error is 0 or
\* 1; a request that is not valid gets error 1 and no upload; a valid
\* request whose status is not 2 gets error 0 and no upload.
C28_CallbackAnswers ==
    cb.made =>
        /\ cb.json /\ cb.error \in {0, 1}
        /\ InvalidCallback(cb.id, cb.body) => (cb.error = 1 /\ ~cb.upload)
        /\ (~InvalidCallback(cb.id, cb.body) /\ Merged(cb.body).status # 2)
              => (cb.error = 0 /\ ~cb.upload)

\* what holds of every request: none but a valid request of status 2 has
\* its file uploaded, and every request that is answered with JSON is
\* answered as the claim says
CallbackUploadsOnStatus2 ==
    cb.made =>
        /\ cb.upload => (~InvalidCallback(cb.id, cb.body)
                         /\ Merged(cb.body).status = 2)
        /\ cb.json => /\ cb.error \in {0, 1}
                      /\ InvalidCallback(cb.id, cb.body) => cb.error = 1
                      /\ (~InvalidCallback(cb.id, cb.body)
                          /\ Merged(cb.body).status # 2) => cb.error = 0

(***************************************************************************)
(* controller.FileController.BuildDownloadFile under concurrent requests.  *)
(* The handlers share one weighted semaphore of AllowedDownloads permits;  *)
(* dl.cur is the number of permits taken.  A request records what it met   *)
(* and did: whether all permits were taken when it arrived, how often it   *)
(* acquired and released, how much work it did, the status it answered.    *)
(***************************************************************************)
\* a TryAcquire that never refuses
TryAcquireAlways(cur, n) == [ok |-> TRUE, cur |-> cur + n]

\* semaphore.Weighted.TryAcquire(n): takes n permits if that many are free
TryAcquire(cur, n) ==
    IF AllowedDownloads - cur >= n THEN [ok |-> TRUE, cur |-> cur + n]
    ELSE [ok |-> FALSE, cur |-> cur]

\* semaphore.Weighted.Release(n)
Release(cur, n) == cur - n

DownloadOnly == UNCHANGED <<tokenVars, reader, up, build, cb, pipe>>

\* the handler up to defer sem.Release(1): 401 for a blank token, 429 when
\* TryAcquire refuses, else the permit is taken and the two verifications
\* are started
DlArrive(r) ==
    /\ dl.reqs[r].pc = "idle"
    /\ \E blank \in BOOLEAN :
          LET full == dl.cur >= AllowedDownloads
              a == TryAcquire(dl.cur, 1)
          IN  IF blank
              THEN dl' = [dl EXCEPT !.reqs[r] =
                            [NotDownloading EXCEPT !.pc = "done", !.full = full,
                                                   !.code = 401]]
              ELSE IF ~a.ok
              THEN dl' = [dl EXCEPT !.reqs[r] =
                            [NotDownloading EXCEPT !.pc = "done", !.full = full,
                                                   !.code = 429]]
              ELSE dl' = [cur |-> a.cur,
                          reqs |-> [dl.reqs EXCEPT ![r] =
                            [NotDownloading EXCEPT !.pc = "verify",
                                                   !.full = full, !.acq = 1]]]
    /\ DownloadOnly

\* wg.Wait() and the select on errChan: 403 when a token does not verify;
\* the deferred Release runs at the return
DlVerify(r) ==
    /\ dl.reqs[r].pc = "verify"
    /\ \E verified \in BOOLEAN :
          IF verified
          THEN dl' = [dl EXCEPT !.reqs[r].pc = "fetch", !.reqs[r].work = @ + 1]
          ELSE dl' = [cur |-> Release(dl.cur, 1),
                      reqs |-> [dl.reqs EXCEPT ![r].pc = "done",
                                               ![r].work = @ + 1,
                                               ![r].rel = @ + 1,
                                               ![r].code = 403]]
    /\ DownloadOnly

\* the user's credentials, the drive service, the file and its download:
\* 403 or 500 when one of them fails, else the file is copied out (200);
\* the deferred Release runs at the return
DlFetch(r) ==
    /\ dl.reqs[r].pc = "fetch"
    /\ \E code \in {403, 500, 200} :
          dl' = [cur |-> Release(dl.cur, 1),
                 reqs |-> [dl.reqs EXCEPT ![r].pc = "done",
                                          ![r].work = @ + 1,
                                          ![r].rel = @ + 1,
                                          ![r].code = code]]
    /\ DownloadOnly

\* the request is over; the next one of this client arrives afresh
DlDone(r) ==
    /\ dl.reqs[r].pc = "done"
    /\ dl' = [dl EXCEPT !.reqs[r] = NotDownloading]
    /\ DownloadOnly

NextDownload ==
    \/ \E r \in Requests : DlArrive(r)
    \/ \E r \in Requests : DlVerify(r)
    \/ \E r \in Requests : DlFetch(r)
    \/ \E r \in Requests : DlDone(r)

SpecDownload == Init /\ [][NextDownload]_vars

\* the requests that hold a permit
Holders == {r \in Requests : dl.reqs[r].acq - dl.reqs[r].rel = 1}

\* C29: at most AllowedDownloads requests hold a permit, and the permits
\* taken are those of the requests at work; a request that arrived with a
\* token while all permits were held was answered 429 and did no work; a
\* request that has returned has released as often as it acquired, once
\* or never.
C29_DownloadLimit ==
    /\ Cardinality(Holders) <= AllowedDownloads
    /\ dl.cur = Cardinality(Holders)
    /\ \A r \in Requests :
          LET q == dl.reqs[r] IN
          /\ q.pc \in {"verify", "fetch"} <=> r \in Holders
          /\ (q.pc = "done" /\ q.full /\ q.code # 401) => q.code = 429
          /\ q.code = 429 => (q.full /\ q.acq = 0 /\ q.work = 0)
          /\ q.pc = "done" => (q.rel = q.acq /\ q.acq \in {0, 1})

\* C29 witness: every permit is held by a request at work, one more
\* request has been answered 429
C29_Witness ==
    /\ Cardinality(Holders) = AllowedDownloads
    /\ \E r \in Requests : dl.reqs[r].pc = "done" /\ dl.reqs[r].code = 429
    /\ \E r \in Holders : dl.reqs[r].pc = "fetch"

(***************************************************************************)
(* functional.Pipe[int].  A stage is an action[int]: it maps its input to  *)
(* an output and an error.  pipe.called lists, in the order of the calls,  *)
(* the positions of the stages the last Do invoked.                        *)
(***************************************************************************)
\* the longest chain
MaxStages == 3

ErrStage == "stage failed"

\* the stages a caller registers: two that succeed and do not commute, two
\* that fail, one of them with an output of its own
Stages == {"inc", "dbl", "fail", "mark"}

\* fn(input)
Apply(fn, input) ==
    CASE fn = "inc" -> [res |-> input + 1, err |-> Nil]
      [] fn = "dbl" -> [res |-> 2 * input, err |-> Nil]
      [] fn = "fail" -> [res |-> input, err |-> ErrStage]
      [] fn = "mark" -> [res |-> input + 10, err |-> ErrStage]

RECURSIVE DoNoBreakFrom(_, _, _, _, _)
\* a loop over p.chain that goes on after an error
DoNoBreakFrom(chain, i, res, err, called) ==
    IF i > Len(chain) THEN [res |-> res, err |-> err, called |-> called]
    ELSE DoNoBreakFrom(chain, i + 1, Apply(chain[i], res).res,
                       Apply(chain[i], res).err, Append(called, i))

DoNoBreak(chain) == DoNoBreakFrom(chain, 1, 0, Nil, << >>)

RECURSIVE DoFrom(_, _, _, _, _)
\* the loop of Do from the i-th stage on: res, err = fn(res), break on err
DoFrom(chain, i, res, err, called) ==
    IF i > Len(chain) THEN [res |-> res, err |-> err, called |-> called]
    ELSE IF Apply(chain[i], res).err # Nil
    THEN [res |-> Apply(chain[i], res).res, err |-> Apply(chain[i], res).err,
          called |-> Append(called, i)]
    ELSE DoFrom(chain, i + 1, Apply(chain[i], res).res,
                Apply(chain[i], res).err, Append(called, i))

\* Pipe.Do: var res T; var err error; the loop; return res, err
Do(chain) == DoFrom(chain, 1, 0, Nil, << >>)

PipeOnly == UNCHANGED <<tokenVars, reader, up, build, cb, dl>>

\* Pipe.Next(f): p.chain = append(p.chain, f)
PipeNext ==
    /\ Len(pipe.chain) < MaxStages
    /\ \E f \in Stages : pipe' = [NewPipe EXCEPT !.chain = Append(pipe.chain, f)]
    /\ PipeOnly

\* Pipe.Do()
PipeDo ==
    /\ pipe' = [chain |-> pipe.chain, ran |-> TRUE, res |-> Do(pipe.chain).res,
                err |-> Do(pipe.chain).err, called |-> Do(pipe.chain).called]
    /\ PipeOnly

NextPipe == PipeNext \/ PipeDo

SpecPipe == Init /\ [][NextPipe]_vars

RECURSIVE Out(_, _)
\* what the first i stages make of the zero value, each fed the output of
\* the one before
Out(chain, i) == IF i = 0 THEN 0 ELSE Apply(chain[i], Out(chain, i - 1)).res

\* the error of the i-th stage on that input
ErrAt(chain, i) == Apply(chain[i], Out(chain, i - 1)).err

\* the position of the first stage that fails, the length of the chain
\* when none does
LastInvoked(chain) ==
    IF \E i \in 1..Len(chain) : ErrAt(chain, i) # Nil
    THEN CHOOSE i \in 1..Len(chain) :
            /\ ErrAt(chain, i) # Nil
            /\ \A j \in 1..(i - 1) : ErrAt(chain, j) = Nil
    ELSE Len(chain)

\* C30: Do invokes the stages in the order of their registration, from the
\* zero value on, each on the output of the one before, up to and including
\* the first that fails and none after it, and returns the result and the
\* error of the last stage it invoked; an empty chain returns the zero
\* value and no error.
C30_PipeInOrder ==
    pipe.ran =>
        LET k == LastInvoked(pipe.chain) IN
        /\ pipe.called = [i \in 1..k |-> i]
        /\ pipe.res = Out(pipe.chain, k)
        /\ pipe.err = IF k = 0 THEN Nil ELSE ErrAt(pipe.chain, k)

\* C30 witness: of three stages the second failed with an output of its
\* own; Do invoked the first two and returned that output and that error
C30_Witness ==
    /\ pipe.ran
    /\ pipe.chain = <<"inc", "mark", "dbl">>
    /\ pipe.called = <<1, 2>>
    /\ pipe.res = 11
    /\ pipe.err = ErrStage

====
